---- MODULE Spec2Model ----
(***************************************************************************)
(* The transaction model of bigchaindb_common (transaction.py): Condition, *)
(* Fulfillment, TransactionLink, Asset, Metadata and Transaction with the  *)
(* builders, the signing pipeline, the validation pipeline and the         *)
(* dictionary encoding with its content identifier.                        *)
(*                                                                         *)
(* Python values are modelled as follows.                                  *)
(*   None / a value        the sequences << >> and << v >>                 *)
(*   a public key          a string of Keys; a private key a string of     *)
(*                         PrivKeys, PubKeyOf gives its public key         *)
(*   an owner entry        a record made by K (a key), L (a list) or T (a  *)
(*                         (list, threshold) tuple)                        *)
(*   a cryptoconditions    a record made by Ed, Thr, CondNode or StrNode;  *)
(*   object                mutable objects live in heap and are named by   *)
(*                         their index there, so that aliasing is visible *)
(*   a signature           [by |-> private key, msg |-> the signed bytes]  *)
(*   serialize / hash_data injective functions of the dictionary: the      *)
(*                         message is the dictionary, the hash wraps it    *)
(***************************************************************************)
EXTENDS Integers, Sequences, FiniteSets, Bags, TLC

VARIABLES heap, tx, prev, held, call, err, errIdx, ret, wire, got, args

vars == <<heap, tx, prev, held, call, err, errIdx, ret, wire, got, args>>

\* ---------------------------------------------------------------- bounds

\* The number of cryptoconditions objects alive at a time.
MaxHeap == 8

\* ------------------------------------------------------------ primitives

None == << >>

Some(v) == << v >>

Keys == {"a", "b", "c"}

PrivKeys == {"A", "B", "C"}

PubKeyOf == ("A" :> "a") @@ ("B" :> "b") @@ ("C" :> "c")

PrivKeyOf == ("a" :> "A") @@ ("b" :> "B") @@ ("c" :> "C")

\* Owner entries: a public key, a list of entries, a (list, threshold) tuple.
K(k) == [kind |-> "key", key |-> k, items |-> << >>, thr |-> 0]

L(items) == [kind |-> "list", key |-> "", items |-> items, thr |-> 0]

T(items, n) == [kind |-> "tuple", key |-> "", items |-> items, thr |-> n]

\* The fingerprint (condition URI) of a claim: a hash of the public key for
\* a leaf, of the threshold and the sorted subcondition fingerprints for a
\* threshold (sorting makes it independent of the order, hence a bag), of
\* the preimage for a hash-lock.
Fp(t, pk, n, subs) == [t |-> t, pk |-> pk, thr |-> n, subs |-> subs]

\* cryptoconditions objects.
Ed(pk) ==
    [kind |-> "ed", pk |-> pk, sig |-> None, thr |-> 0, subs |-> << >>,
     uri |-> None]

Thr(n, subs) ==
    [kind |-> "thr", pk |-> "", sig |-> None, thr |-> n, subs |-> subs,
     uri |-> None]

CondNode(fp) ==
    [kind |-> "cond", pk |-> "", sig |-> None, thr |-> 0, subs |-> << >>,
     uri |-> Some(fp)]

StrNode(fp) ==
    [kind |-> "str", pk |-> "", sig |-> None, thr |-> 0, subs |-> << >>,
     uri |-> Some(fp)]

\* A Python value that is no cryptoconditions object and no string.
RawNode ==
    [kind |-> "raw", pk |-> "", sig |-> None, thr |-> 0, subs |-> << >>,
     uri |-> Some(Fp("raw", "", 0, EmptyBag))]

RECURSIVE BagOfSeq(_)
BagOfSeq(s) ==
    IF s = << >> THEN EmptyBag
    ELSE SetToBag({Head(s)}) (+) BagOfSeq(Tail(s))

RECURSIVE ConditionUri(_)
ConditionUri(n) ==
    CASE n.kind = "ed" -> Fp("ed", n.pk, 0, EmptyBag)
      [] n.kind = "thr" ->
            Fp("thr", "", n.thr,
               BagOfSeq([i \in 1..Len(n.subs) |-> ConditionUri(n.subs[i])]))
      [] OTHER -> n.uri[1]

PreimageConditionUri(secret) == Fp("preimage", secret, 0, EmptyBag)

\* Every leaf that is held as a fulfillment carries a signature.
RECURSIVE FullySigned(_)
FullySigned(n) ==
    CASE n.kind = "ed" -> n.sig # None
      [] n.kind = "thr" -> \A i \in 1..Len(n.subs) : FullySigned(n.subs[i])
      [] OTHER -> TRUE

\* The indices of the first k subconditions held as fulfillments.
RECURSIVE FirstFulfillments(_, _, _)
FirstFulfillments(subs, i, k) ==
    IF i > Len(subs) \/ k = 0 THEN {}
    ELSE IF subs[i].kind = "cond" THEN FirstFulfillments(subs, i + 1, k)
    ELSE {i} \cup FirstFulfillments(subs, i + 1, k - 1)

\* The payload serialize_uri writes for a fully signed claim: a threshold
\* keeps the smallest set of subfulfillments that meets its threshold and
\* writes the others as bare conditions.
RECURSIVE Payload(_)
Payload(n) ==
    IF n.kind # "thr" THEN n
    ELSE LET keep == FirstFulfillments(n.subs, 1, n.thr)
         IN  [n EXCEPT !.subs =
                [i \in 1..Len(n.subs) |->
                    IF i \in keep THEN Payload(n.subs[i])
                    ELSE IF n.subs[i].kind = "cond" THEN n.subs[i]
                    ELSE CondNode(ConditionUri(n.subs[i]))]]

\* The value of the 'fulfillment' field of an encoded Fulfillment: null, a
\* fulfillment URI, or the details dictionary of an unsigned claim.
FfNull == [form |-> "null", body |-> None]

FfUri(n) == [form |-> "uri", body |-> Some(n)]

FfGarbage == [form |-> "uri", body |-> None]

FfDict(d) == [form |-> "dict", body |-> Some(d)]

\* cryptoconditions' to_dict and from_dict of a claim.
RECURSIVE CcToDict(_)
CcToDict(n) ==
    [type_id |-> IF n.kind = "ed" THEN 4 ELSE 2,
     public_key |-> n.pk,
     signature |-> n.sig,
     threshold |-> n.thr,
     subfulfillments |-> [i \in 1..Len(n.subs) |-> CcToDict(n.subs[i])]]

RECURSIVE CcFromDict(_)
CcFromDict(d) ==
    [kind |-> IF d.type_id = 4 THEN "ed" ELSE "thr",
     pk |-> d.public_key,
     sig |-> d.signature,
     thr |-> d.threshold,
     subs |-> [i \in 1..Len(d.subfulfillments) |->
                  CcFromDict(d.subfulfillments[i])],
     uri |-> None]

\* serialize_uri: "AttributeError" for a str, "TypeError" while a leaf has
\* no signature, the URI otherwise.
SerializeUri(n) ==
    IF n.kind \in {"str", "cond", "raw"}
    THEN [err |-> "AttributeError", uri |-> FfNull]
    ELSE IF ~FullySigned(n) THEN [err |-> "TypeError", uri |-> FfNull]
    ELSE [err |-> "ok", uri |-> FfUri(Payload(n))]

\* Fulfillment.from_uri: "TypeError" for what is no string, "ValueError"
\* for a string that is no fulfillment URI, the parsed claim otherwise.
FromUri(f) ==
    IF f.form # "uri" THEN [err |-> "TypeError", node |-> None]
    ELSE IF f.body = None THEN [err |-> "ValueError", node |-> None]
    ELSE [err |-> "ok", node |-> f.body]

\* A validate that only looks for a signature and verifies none.
ValidateUnverified(n, msg) == FullySigned(n)

\* validate of a parsed claim against a message: a leaf verifies its
\* signature under its public key, a threshold needs as many valid
\* subfulfillments as its threshold says.
RECURSIVE Validate(_, _)
Validate(n, msg) ==
    CASE n.kind = "ed" ->
            /\ n.sig # None
            /\ PubKeyOf[n.sig[1].by] = n.pk
            /\ n.sig[1].msg = msg
      [] n.kind = "thr" ->
            Cardinality({i \in 1..Len(n.subs) :
                            /\ n.subs[i].kind # "cond"
                            /\ Validate(n.subs[i], msg)}) >= n.thr
      [] OTHER -> FALSE

\* get_subcondition_from_vk(vk) is not empty: a depth-first search for a
\* leaf with that public key; an owner entry that is no key matches none.
RECURSIVE HasLeaf(_, _)
HasLeaf(n, owner) ==
    CASE n.kind = "ed" -> owner.kind = "key" /\ n.pk = owner.key
      [] n.kind = "thr" -> \E i \in 1..Len(n.subs) : HasLeaf(n.subs[i], owner)
      [] OTHER -> FALSE

\* subffill.sign on get_subcondition_from_vk(vk)[0], the first match.
RECURSIVE SignLeaf(_, _, _)
SignLeaf(n, owner, sig) ==
    CASE n.kind = "ed" -> [n EXCEPT !.sig = Some(sig)]
      [] n.kind = "thr" ->
            LET first == CHOOSE i \in 1..Len(n.subs) :
                            /\ HasLeaf(n.subs[i], owner)
                            /\ \A j \in 1..(i - 1) : ~HasLeaf(n.subs[j], owner)
            IN  [n EXCEPT !.subs[first] = SignLeaf(n.subs[first], owner, sig)]
      [] OTHER -> n

\* ------------------------------------------------------------- the objects

\* TransactionLink(txid, cid).
TransactionLink(txid, cid) == [txid |-> txid, cid |-> cid]

\* TransactionLink.__bool__
LinkBool(l) == l.txid # None /\ l.cid # None

\* A to_dict that writes the two fields of every link, the empty one too.
LinkToDictOfFields(l) == Some([txid |-> l.txid, cid |-> l.cid])

\* TransactionLink.to_dict: null when both fields are null.
LinkToDict(l) ==
    IF l.txid = None /\ l.cid = None THEN None
    ELSE Some([txid |-> l.txid, cid |-> l.cid])

\* TransactionLink.from_dict: the empty link for null.
LinkFromDict(d) ==
    IF d = None THEN TransactionLink(None, None)
    ELSE TransactionLink(d[1].txid, d[1].cid)

\* TransactionLink.__eq__: it compares self.to_dict() with self.to_dict().
LinkEq(self, other) == LinkToDict(self) = LinkToDict(self)

\* Fulfillment(fulfillment, owners_before, tx_input); ff names the claim.
Fulfillment(ref, owners_before, tx_input) ==
    [ff |-> ref, owners_before |-> owners_before, tx_input |-> tx_input]

\* Condition(fulfillment, owners_after, amount).
Condition(ref, owners_after, amount) ==
    [ff |-> ref, owners_after |-> owners_after, amount |-> amount]

\* Python values by their type: True, False, the integer 1, a dict and a
\* str.
PyTrue == [type |-> "bool", val |-> "True"]

PyFalse == [type |-> "bool", val |-> "False"]

PyInt1 == [type |-> "int", val |-> "1"]

PyDict(d) == [type |-> "dict", val |-> d]

PyStr(s) == [type |-> "str", val |-> s]

\* The fields of an Asset.
Asset(data, data_id, divisible, updatable, refillable) ==
    [data |-> data, data_id |-> data_id, divisible |-> divisible,
     updatable |-> updatable, refillable |-> refillable]

\* A validation that accepts every Asset.
ValidateAssetOfAny(a) == "ok"

\* Asset._validate_asset: TypeError for a payload that is neither None nor
\* a dict and for a flag that is no bool.
ValidateAsset(a) ==
    IF a.data # None /\ a.data[1].type # "dict" THEN "TypeError"
    ELSE IF a.divisible.type # "bool" THEN "TypeError"
    ELSE IF a.refillable.type # "bool" THEN "TypeError"
    ELSE IF a.updatable.type # "bool" THEN "TypeError"
    ELSE "ok"

\* uuid4() of Asset.to_hash.
AssetUuid == "asset-uuid"

\* Asset(data, data_id, divisible, updatable, refillable): data_id is None
\* or Some(id); the Asset, or the TypeError of its validation.
AssetInit(data, data_id, divisible, updatable, refillable) ==
    LET a == Asset(data, IF data_id = None THEN AssetUuid ELSE data_id[1],
                   divisible, updatable, refillable)
    IN  IF ValidateAsset(a) # "ok"
        THEN [err |-> ValidateAsset(a), asset |-> None]
        ELSE [err |-> "ok", asset |-> Some(a)]

AssetToDictOfId(a) == [id |-> a.data_id]

\* Asset.to_dict
AssetToDict(a) ==
    [id |-> a.data_id, divisible |-> a.divisible, updatable |-> a.updatable,
     refillable |-> a.refillable, data |-> a.data]

\* A from_dict that reads the id and leaves the rest at the defaults.
AssetFromDictOfDefaults(d) ==
    IF "id" \notin DOMAIN d THEN [err |-> "KeyError", asset |-> None]
    ELSE AssetInit(None, Some(d.id), PyFalse, PyFalse, PyFalse)

\* Asset.from_dict: 'id' is required, the other keys have defaults.
AssetFromDict(d) ==
    IF "id" \notin DOMAIN d THEN [err |-> "KeyError", asset |-> None]
    ELSE AssetInit(
            IF "data" \in DOMAIN d THEN d.data ELSE None,
            Some(d.id),
            IF "divisible" \in DOMAIN d THEN d.divisible ELSE PyFalse,
            IF "updatable" \in DOMAIN d THEN d.updatable ELSE PyFalse,
            IF "refillable" \in DOMAIN d THEN d.refillable ELSE PyFalse)

\* Asset.__eq__(other): other.to_dict is None for a value without a
\* to_dict method, Some(what it returns) otherwise.
AssetEq(self, other) ==
    IF other.to_dict = None THEN FALSE
    ELSE Some(AssetToDict(self)) = other.to_dict[1]

Metadata(data, data_id) == [data |-> data, data_id |-> data_id]

\* Metadata.to_dict: null when there is no payload.
MetadataToDict(m) ==
    IF m = None \/ m[1].data = None THEN None
    ELSE Some([data |-> m[1].data, id |-> m[1].data_id])

\* Metadata.from_dict: a fresh Metadata without payload for null.
MetadataFromDict(d, fresh) ==
    IF d = None THEN Metadata(None, fresh)
    ELSE Metadata(d[1].data, d[1].id)

\* Transaction(operation, asset, fulfillments, conditions, metadata,
\* timestamp, version).
Transaction(operation, asset, fulfillments, conditions, metadata, timestamp, version) ==
    [operation |-> operation, asset |-> asset, fulfillments |-> fulfillments,
     conditions |-> conditions, metadata |-> metadata,
     timestamp |-> timestamp, version |-> version]

\* ------------------------------------------------------------ the encoding

\* Fulfillment.to_dict: the URI of a signed claim, the details dictionary
\* of an unsigned one; a claim held as a string has neither.
FulfillmentToDict(f, fid, h) ==
    LET Encoded(n, s) ==
            IF s.err # "ok" /\ n.kind \in {"str", "cond", "raw"}
            THEN [err |-> "AttributeError", dict |-> None]
            ELSE [err |-> "ok",
                  dict |-> Some(
                    [owners_before |-> f.owners_before,
                     input |-> IF f.tx_input = None THEN None
                               ELSE LinkToDict(f.tx_input[1]),
                     fulfillment |-> IF s.err = "ok" THEN s.uri
                                     ELSE FfDict(CcToDict(n)),
                     fid |-> fid])]
    IN  Encoded(h[f.ff], SerializeUri(h[f.ff]))

\* Fulfillment.from_dict: the claim parsed from its URI, or built from the
\* details dictionary when the field is no string.
FulfillmentFromDict(d) ==
    LET Decoded(p) ==
            IF p.err = "ValueError"
            THEN [err |-> "InvalidSignature", node |-> None, f |-> None]
            ELSE IF p.err = "TypeError" /\ d.fulfillment.form # "dict"
            THEN [err |-> "TypeError", node |-> None, f |-> None]
            ELSE [err |-> "ok",
                  node |-> IF p.err = "ok" THEN p.node
                           ELSE Some(CcFromDict(d.fulfillment.body[1])),
                  f |-> Some([owners_before |-> d.owners_before,
                              tx_input |-> Some(LinkFromDict(d.input))])]
    IN  Decoded(FromUri(d.fulfillment))

\* Condition.to_dict: the details of the claim and its fingerprint; a
\* hash-lock held as a string has no details and is its own fingerprint.
ConditionToDict(c, cid, h) ==
    LET n == h[c.ff]
    IN  [owners_after |-> c.owners_after,
         condition |-> [details |-> IF n.kind \in {"str", "cond", "raw"} THEN None
                                    ELSE Some(CcToDict(n)),
                        uri |-> ConditionUri(n)],
         amount |-> c.amount,
         cid |-> cid]

\* Condition.from_dict: the claim built from the details, the fingerprint
\* string when there are none.
ConditionFromDict(d) ==
    [node |-> IF d.condition.details = None THEN StrNode(d.condition.uri)
              ELSE CcFromDict(d.condition.details[1]),
     c |-> [owners_after |-> d.owners_after, amount |-> d.amount]]

\* serialize and hash_data: injective on dictionaries.
ToStr(d) == [json |-> d]

ToHash(s) == [sha3 |-> s]

\* A _remove_signatures that leaves the dictionary as it is.
RemoveSignaturesOfNone(d) == d

\* Transaction._remove_signatures: every 'fulfillment' field becomes null.
RemoveSignatures(d) ==
    [d EXCEPT !.transaction.fulfillments =
        [i \in 1..Len(@) |-> [@[i] EXCEPT !.fulfillment = FfNull]]]

\* A value that is no dictionary, where a dictionary is expected.
NotADict == [str |-> "fulfillment"]

\* What Transaction._remove_signatures raises on a dictionary it cannot
\* walk: KeyError without 'transaction', TypeError for an entry of
\* 'fulfillments' that takes no item assignment; "ok" otherwise.
RemoveSignaturesError(d) ==
    IF "transaction" \notin DOMAIN d THEN "KeyError"
    ELSE IF \E i \in 1..Len(d.transaction.fulfillments) :
                d.transaction.fulfillments[i] = NotADict
    THEN "TypeError"
    ELSE "ok"

\* The dictionary of a transaction before its id is attached.
TxBody(t, h) ==
    LET Body(fs) ==
            IF \E i \in 1..Len(fs) : fs[i].err # "ok"
            THEN [err |-> "AttributeError", dict |-> None]
            ELSE [err |-> "ok",
                  dict |-> Some(
                    [id |-> None,
                     version |-> t.version,
                     transaction |->
                       [fulfillments |->
                          [i \in 1..Len(fs) |-> fs[i].dict[1]],
                        conditions |->
                          [i \in 1..Len(t.conditions) |->
                              ConditionToDict(t.conditions[i], Some(i - 1),
                                              h)],
                        operation |-> t.operation,
                        timestamp |-> t.timestamp,
                        metadata |-> MetadataToDict(t.metadata),
                        asset |-> IF t.operation \in {"GENESIS", "CREATE"}
                                  THEN AssetToDict(t.asset)
                                  ELSE [id |-> t.asset.data_id]]])]
    IN  Body([i \in 1..Len(t.fulfillments) |->
                FulfillmentToDict(t.fulfillments[i], Some(i - 1), h)])

\* Transaction.to_dict: the body with the hash of its signature-stripped
\* serialization as 'id'.
ToDict(t, h) ==
    LET WithId(b) ==
            IF b.err # "ok" THEN b
            ELSE [err |-> "ok",
                  dict |-> Some([b.dict[1] EXCEPT !.id =
                      Some(ToHash(ToStr(RemoveSignatures(b.dict[1]))))])]
    IN  WithId(TxBody(t, h))

\* Transaction.id
TxId(t, h) == ToDict(t, h).dict[1].id

\* ------------------------------------------------------ Condition.generate

\* Condition._gen_condition folded over the entries of a list: the
\* subfulfillments it adds, or the ValueError of a sublist with fewer
\* than two entries.
RECURSIVE GenCondition(_)
GenCondition(current) ==
    LET isList == current.kind \in {"list", "tuple"}
        threshold == IF current.kind = "tuple" THEN current.thr
                     ELSE Len(current.items)
        subs == [i \in 1..Len(current.items) |->
                    GenCondition(current.items[i])]
    IN  IF isList /\ Len(current.items) > 1
        THEN IF \E i \in 1..Len(subs) : subs[i].err # "ok"
             THEN [err |-> "ValueError", node |-> None]
             ELSE [err |-> "ok",
                   node |-> Some(Thr(threshold,
                              [i \in 1..Len(subs) |-> subs[i].node[1]]))]
        ELSE IF isList
        THEN [err |-> "ValueError", node |-> None]
        ELSE [err |-> "ok", node |-> Some(Ed(current.key))]

\* Condition.generate(owners_after): the claim and the owners_after of the
\* Condition it returns.
Generate(spec) ==
    LET threshold == IF spec.kind = "tuple" THEN spec.thr
                     ELSE Len(spec.items)
        owners == spec.items
        subs == [i \in 1..Len(owners) |-> GenCondition(owners[i])]
    IN  IF spec.kind = "key"
        THEN [err |-> "TypeError", node |-> None, owners |-> None]
        ELSE IF Len(owners) = 0
        THEN [err |-> "ValueError", node |-> None, owners |-> None]
        ELSE IF Len(owners) = 1 /\ owners[1].kind = "key"
        THEN [err |-> "ok", node |-> Some(Ed(owners[1].key)),
              owners |-> Some(owners)]
        ELSE IF Len(owners) = 1 /\ owners[1].kind = "tuple"
        THEN [err |-> "ok", node |-> Some(RawNode), owners |-> Some(owners)]
        ELSE IF \E i \in 1..Len(subs) : subs[i].err # "ok"
        THEN [err |-> "ValueError", node |-> None, owners |-> None]
        ELSE [err |-> "ok",
              node |-> Some(Thr(threshold,
                         [i \in 1..Len(subs) |-> subs[i].node[1]])),
              owners |-> Some(owners)]

\* ----------------------------------------------------------------- signing

\* A message that covers the whole transaction, not the one pair.
PartialMessageOfWhole(t, f, c, h) ==
    LET Message(d) ==
            IF d.err # "ok" THEN [err |-> d.err, msg |-> None]
            ELSE [err |-> "ok",
                  msg |-> Some(ToStr(RemoveSignatures(d.dict[1])))]
    IN  Message(ToDict(t, h))

\* The message signed and verified for the pair at index i: the
\* signature-stripped serialization of the transaction that holds only
\* that fulfillment and that condition.
PartialMessage(t, f, c, h) ==
    LET Message(d) ==
            IF d.err # "ok" THEN [err |-> d.err, msg |-> None]
            ELSE [err |-> "ok",
                  msg |-> Some(ToStr(RemoveSignatures(d.dict[1])))]
    IN  Message(ToDict(Transaction(t.operation, t.asset, <<f>>, <<c>>,
                                   t.metadata, t.timestamp, t.version), h))

\* A key_pairs that holds the private key of every public key.
HasKeyOfAll(owner, private_keys) == owner.kind = "key"

\* key_pairs[owner]: the private key of private_keys whose public key is
\* the owner.
HasKey(owner, private_keys) ==
    owner.kind = "key" /\ \E sk \in private_keys : PubKeyOf[sk] = owner.key

\* The KeyError of key_pairs[owner_before] and the IndexError of
\* get_subcondition_from_vk(owner_before)[0], left as they are.
KeyError == "KeyError"

\* What the except clauses of the two signing methods raise for them.
KeypairMismatchException == "KeypairMismatch"

\* Transaction._sign_simple_signature_fulfillment: the claim of a copy of
\* the fulfillment, signed for owners_before[0].
SignSimple(f, n, msg, private_keys) ==
    IF Len(f.owners_before) = 0 THEN [err |-> "IndexError", node |-> n]
    ELSE LET owner_before == f.owners_before[1]
         IN  IF owner_before.kind # "key"
             THEN [err |-> "TypeError", node |-> n]
             ELSE IF ~HasKey(owner_before, private_keys)
             THEN [err |-> KeypairMismatchException, node |-> n]
             ELSE [err |-> "ok",
                   node |-> [n EXCEPT
                       !.pk = owner_before.key,
                       !.sig = Some([by |-> PrivKeyOf[owner_before.key],
                                     msg |-> msg])]]

\* The loop of Transaction._sign_threshold_signature_fulfillment over
\* owners_before, from its j-th entry on.
RECURSIVE SignOwners(_, _, _, _, _)
SignOwners(n, owners, j, msg, private_keys) ==
    IF j > Len(owners) THEN [err |-> "ok", node |-> n]
    ELSE IF ~HasLeaf(n, owners[j]) \/ ~HasKey(owners[j], private_keys)
    THEN [err |-> KeypairMismatchException, node |-> n]
    ELSE SignOwners(
            SignLeaf(n, owners[j],
                     [by |-> PrivKeyOf[owners[j].key], msg |-> msg]),
            owners, j + 1, msg, private_keys)

\* Transaction._sign_threshold_signature_fulfillment: the claim of a copy
\* of the fulfillment, signed for every entry of owners_before.
SignThreshold(f, n, msg, private_keys) ==
    SignOwners(n, f.owners_before, 1, msg, private_keys)

\* Transaction._sign_fulfillment: by the type of the claim.
SignFulfillment(f, n, msg, private_keys) ==
    CASE n.kind = "ed" -> SignSimple(f, n, msg, private_keys)
      [] n.kind = "thr" -> SignThreshold(f, n, msg, private_keys)
      [] OTHER -> [err |-> "ValueError", node |-> n]

\* No copy: the claim is signed where it is.
SignedInPlaceRef(f, h) == f.ff

\* Where the signed copy of the claim at h[f.ff] is put: a new object.
SignedCopyRef(f, h) == Len(h) + 1

\* The loop of Transaction.sign from index i on: each pair is signed on a
\* copy that replaces the fulfillment at its index; the first error ends
\* the loop and leaves what was installed before it.
RECURSIVE SignFrom(_, _, _, _)
SignFrom(t, h, i, private_keys) ==
    IF i > Len(t.fulfillments) \/ i > Len(t.conditions)
    THEN [err |-> "ok", idx |-> 0, tx |-> t, heap |-> h]
    ELSE LET f == t.fulfillments[i]
             Install(s, r) ==
                IF s.err # "ok"
                THEN [err |-> s.err, idx |-> i, tx |-> t, heap |-> h]
                ELSE SignFrom([t EXCEPT !.fulfillments[i].ff = r],
                              IF r > Len(h) THEN Append(h, s.node)
                              ELSE [h EXCEPT ![r] = s.node],
                              i + 1, private_keys)
             Step(m) ==
                IF m.err # "ok"
                THEN [err |-> m.err, idx |-> i, tx |-> t, heap |-> h]
                ELSE Install(SignFulfillment(f, h[f.ff], m.msg[1],
                                             private_keys),
                             SignedCopyRef(f, h))
         IN  Step(PartialMessage(t, f, t.conditions[i], h))

\* A sign that installs nothing unless every pair could be signed.
SignOfAllOrNone(t, h, private_keys) ==
    LET Undone(r) == IF r.err = "ok" THEN r
                     ELSE [r EXCEPT !.tx = t, !.heap = h]
    IN  Undone(SignFrom(t, h, 1, private_keys))

\* Transaction.sign(private_keys): the loop from the first pair on.
SignResult(t, h, private_keys) == SignFrom(t, h, 1, private_keys)

\* -------------------------------------------------------------- validation

\* An input_cond_valid that is true for every operation.
InputCondValidOfAny(operation, input_condition_uri, ccffill) == TRUE

\* input_cond_valid of Transaction._fulfillment_valid: true for CREATE and
\* GENESIS, the equality of the fingerprints otherwise.
InputCondValid(operation, input_condition_uri, ccffill) ==
    IF operation \in {"CREATE", "GENESIS"} THEN TRUE
    ELSE input_condition_uri = Some(ConditionUri(ccffill))

\* Transaction._fulfillment_valid: "True", "False", or the error raised.
FulfillmentValid(f, operation, msg, input_condition_uri, h) ==
    LET ccffill == h[f.ff]
        Parsed(s, parsed_ffill) ==
            IF s.err = "AttributeError" THEN "AttributeError"
            ELSE IF s.err # "ok" \/ parsed_ffill.err # "ok" THEN "False"
            ELSE IF /\ Validate(parsed_ffill.node[1], msg)
                    /\ InputCondValid(operation, input_condition_uri,
                                      ccffill)
            THEN "True" ELSE "False"
    IN  Parsed(SerializeUri(ccffill), FromUri(SerializeUri(ccffill).uri))

\* gen_tx of Transaction._fulfillments_valid for the pair at index i.
GenTx(t, i, uris, h) ==
    LET Check(m) ==
            IF m.err # "ok" THEN m.err
            ELSE FulfillmentValid(t.fulfillments[i], t.operation, m.msg[1],
                                  uris[i], h)
    IN  Check(PartialMessage(t, t.fulfillments[i], t.conditions[i], h))

\* all(map(gen_tx, ...)) from index i on: map ends with the shortest of
\* its three lists, all stops at the first false.
RECURSIVE AllFrom(_, _, _, _)
\* An all that is false when there is nothing to check.
AllFromOfSome(t, i, uris, h) ==
    LET last == CHOOSE n \in 0..Len(uris) :
                    /\ n <= Len(t.fulfillments)
                    /\ n <= Len(t.conditions)
                    /\ \A m \in (n + 1)..Len(uris) :
                          m > Len(t.fulfillments) \/ m > Len(t.conditions)
    IN  IF last = 0 THEN "False"
        ELSE IF \A k \in i..last : GenTx(t, k, uris, h) = "True" THEN "True"
        ELSE GenTx(t, CHOOSE k \in i..last :
                         /\ GenTx(t, k, uris, h) # "True"
                         /\ \A j \in i..(k - 1) :
                               GenTx(t, j, uris, h) = "True",
                   uris, h)

AllFrom(t, i, uris, h) ==
    IF i > Len(t.fulfillments) \/ i > Len(t.conditions) \/ i > Len(uris)
    THEN "True"
    ELSE LET Rest(r) == IF r = "True" THEN AllFrom(t, i + 1, uris, h)
                        ELSE r
         IN  Rest(GenTx(t, i, uris, h))

\* A batch check that validates the pairs there are, whatever the counts.
FulfillmentsValidUrisOfAnyCount(t, uris, h) == AllFrom(t, 1, uris, h)

\* Transaction._fulfillments_valid(input_condition_uris).
FulfillmentsValidUris(t, uris, h) ==
    IF ~(Len(t.fulfillments) = Len(t.conditions)
         /\ Len(t.conditions) = Len(uris))
    THEN "ValueError"
    ELSE AllFrom(t, 1, uris, h)

\* The string each CREATE or GENESIS fulfillment is checked against.
DummyValue == Some(Fp("dummyvalue", "", 0, EmptyBag))

\* Transaction.fulfillments_valid(input_conditions); input_conditions is
\* None or Some(list of Conditions).
FulfillmentsValid(t, input_conditions, h) ==
    IF t.operation \in {"CREATE", "GENESIS"}
    THEN FulfillmentsValidUris(t,
            [i \in 1..Len(t.fulfillments) |-> DummyValue], h)
    ELSE IF input_conditions = None THEN "TypeError"
    ELSE LET conds == input_conditions[1]
         IN  IF \E i \in 1..Len(conds) :
                    h[conds[i].ff].kind \in {"str", "raw"}
             THEN "AttributeError"
             ELSE FulfillmentsValidUris(t,
                    [i \in 1..Len(conds) |->
                        Some(ConditionUri(h[conds[i].ff]))], h)

\* ------------------------------------------------------------ the builders

\* Transaction.VERSION
VERSION == 1

\* gen_timestamp(): the clock of the run.
GenTimestamp == "1476101470"

\* uuid4() of Metadata.to_hash.
MetadataUuid == "metadata-uuid"

\* The name of the i-th object appended to the heap h.
RefAt(h, i) == Len(h) + i

\* A Fulfillment that carries an empty link.
CreateFulfillmentOfLink(ref, owners_before) ==
    Fulfillment(ref, owners_before, Some(TransactionLink(None, None)))

\* ffill_tx = Fulfillment(ffill, owners_before) of Transaction.create.
CreateFulfillment(ref, owners_before) == Fulfillment(ref, owners_before, None)

\* Transaction.create: the error raised, or the transaction and the claims
\* it allocates (the fulfillment's first, the condition's second).
CreateResult(owners_before, owners_after, metadata, asset, secret, time_expire, h) ==
    LET nb == Len(owners_before)
        na == Len(owners_after)
        g == Generate(L(owners_after))
        built(cnode, cowners) ==
            [err |-> "ok",
             nodes |-> <<Ed(owners_before[1].key), cnode>>,
             tx |-> Some(Transaction("CREATE",
                      IF asset = None
                      THEN Asset(None, AssetUuid, PyFalse, PyFalse, PyFalse)
                      ELSE asset[1],
                      <<CreateFulfillment(RefAt(h, 1), owners_before)>>,
                      <<Condition(RefAt(h, 2), cowners, 1)>>,
                      Some(Metadata(metadata, MetadataUuid)),
                      GenTimestamp, VERSION))]
        failed(e) == [err |-> e, nodes |-> << >>, tx |-> None]
    IN  IF nb = na /\ na = 1
        THEN IF g.err # "ok" THEN failed(g.err)
             ELSE built(g.node[1], g.owners)
        ELSE IF nb = na /\ na > 1 THEN failed("NotImplementedError")
        ELSE IF nb = 1 /\ na > 1
        THEN IF g.err # "ok" THEN failed(g.err)
             ELSE built(g.node[1], g.owners)
        ELSE IF nb = 1 /\ na = 0 /\ secret # None
        THEN built(StrNode(PreimageConditionUri(secret[1])), None)
        ELSE IF nb > 0 /\ na = 0 /\ time_expire # None
        THEN failed("NotImplementedError")
        ELSE IF nb > 0 /\ na = 0 /\ secret = None
        THEN failed("ValueError")
        ELSE failed("ValueError")

\* Transaction.to_inputs(condition_indices), condition_indices None or
\* Some(list of indices from 0): one Fulfillment per index, of all
\* conditions for None and for the empty list, sharing the condition's
\* claim and linking to (id, cid). An index past the last condition is an
\* IndexError, and a condition without owners_after is refused by the
\* Fulfillment constructor; the first index that fails ends the loop.
ToInputsResult(t, h, condition_indices) ==
    LET indices == IF condition_indices = None
                      \/ Len(condition_indices[1]) = 0
                   THEN [i \in 1..Len(t.conditions) |-> i - 1]
                   ELSE condition_indices[1]
        Inputs(d) ==
            LET Failure(k) ==
                    IF indices[k] + 1 > Len(t.conditions) THEN "IndexError"
                    ELSE IF d.err # "ok" THEN d.err
                    ELSE IF t.conditions[indices[k] + 1].owners_after = None
                    THEN "TypeError"
                    ELSE "ok"
            IN  IF \E k \in 1..Len(indices) : Failure(k) # "ok"
                THEN [err |-> Failure(CHOOSE k \in 1..Len(indices) :
                                 /\ Failure(k) # "ok"
                                 /\ \A j \in 1..(k - 1) : Failure(j) = "ok"),
                      inputs |-> << >>]
                ELSE [err |-> "ok",
                      inputs |-> [k \in 1..Len(indices) |->
                          Fulfillment(t.conditions[indices[k] + 1].ff,
                              t.conditions[indices[k] + 1].owners_after[1],
                              Some(TransactionLink(d.dict[1].id,
                                                   Some(indices[k]))))]]
    IN  Inputs(ToDict(t, h))

\* A transfer that takes any number of inputs.
NoInputsNever(inputs) == FALSE

\* len(inputs) == 0 of Transaction.transfer.
NoInputs(inputs) == Len(inputs) = 0

\* Transaction.transfer: the error raised, or the transaction and the
\* claims it allocates (the copies of the inputs' first, then the
\* conditions').
TransferResult(inputs, owners_after, asset, metadata, h) ==
    LET n == Len(inputs)
        gs == IF Len(owners_after) = 1
              THEN <<Generate(L(owners_after))>>
              ELSE [i \in 1..Len(owners_after) |-> Generate(owners_after[i])]
        failed(e) == [err |-> e, nodes |-> << >>, tx |-> None]
    IN  IF NoInputs(inputs) THEN failed("ValueError")
        ELSE IF n # Len(owners_after) THEN failed("ValueError")
        ELSE IF \E i \in 1..n : gs[i].err # "ok"
        THEN failed(gs[CHOOSE i \in 1..n :
                          /\ gs[i].err # "ok"
                          /\ \A j \in 1..(i - 1) : gs[j].err = "ok"].err)
        ELSE [err |-> "ok",
              nodes |-> [i \in 1..(2 * n) |->
                            IF i <= n THEN h[inputs[i].ff]
                            ELSE gs[i - n].node[1]],
              tx |-> Some(Transaction("TRANSFER", asset,
                      [i \in 1..n |->
                          [inputs[i] EXCEPT !.ff = RefAt(h, i)]],
                      [i \in 1..n |->
                          Condition(RefAt(h, n + i), gs[i].owners, 1)],
                      Some(Metadata(metadata, MetadataUuid)),
                      GenTimestamp, VERSION))]

\* --------------------------------------------------- Transaction.from_dict

\* An id that does not cover the timestamp.
ValidTxIdOfUntimed(d) ==
    ToHash(ToStr(RemoveSignatures(
        [d EXCEPT !.id = None, !.transaction.timestamp = GenTimestamp])))

\* The id from_dict recomputes for a dictionary: the hash of what is left
\* of it without 'id', signatures removed.
ValidTxId(d) == ToHash(ToStr(RemoveSignatures([d EXCEPT !.id = None])))

\* The first error of a sequence of results, "ok" when there is none.
FirstError(rs) ==
    IF \A i \in 1..Len(rs) : rs[i].err = "ok" THEN "ok"
    ELSE rs[CHOOSE i \in 1..Len(rs) :
                /\ rs[i].err # "ok"
                /\ \A j \in 1..(i - 1) : rs[j].err = "ok"].err

\* Transaction.from_dict: the error raised, or the transaction and the
\* claims it allocates (the fulfillments' first, then the conditions').
FromDictResult(d, h) ==
    LET body == d.transaction
        fs == [i \in 1..Len(body.fulfillments) |->
                  FulfillmentFromDict(body.fulfillments[i])]
        cs == [i \in 1..Len(body.conditions) |->
                  ConditionFromDict(body.conditions[i])]
        nf == Len(fs)
        a == AssetFromDict(body.asset)
        failed(e) == [err |-> e, nodes |-> << >>, tx |-> None]
    IN  IF d.id = None THEN failed("InvalidHash")
        ELSE IF RemoveSignaturesError(d) # "ok"
        THEN failed(RemoveSignaturesError(d))
        ELSE IF d.id # Some(ValidTxId(d)) THEN failed("InvalidHash")
        ELSE IF FirstError(fs) # "ok" THEN failed(FirstError(fs))
        ELSE IF a.err # "ok" THEN failed(a.err)
        ELSE IF body.operation \notin {"CREATE", "TRANSFER", "GENESIS"}
        THEN failed("ValueError")
        ELSE [err |-> "ok",
              nodes |-> [i \in 1..(nf + Len(cs)) |->
                            IF i <= nf THEN fs[i].node[1]
                            ELSE cs[i - nf].node],
              tx |-> Some(Transaction(body.operation, a.asset[1],
                      [i \in 1..nf |->
                          Fulfillment(RefAt(h, i), fs[i].f[1].owners_before,
                                      fs[i].f[1].tx_input)],
                      [i \in 1..Len(cs) |->
                          Condition(RefAt(h, nf + i), cs[i].c.owners_after,
                                    cs[i].c.amount)],
                      Some(MetadataFromDict(body.metadata, MetadataUuid)),
                      body.timestamp, d.version))]

\* ------------------------------------------------- what the client passes

\* owners_before and owners_after of Transaction.create.
OwnersBeforeArgs == {<< >>, <<K("a")>>, <<K("a"), K("b")>>}

OwnersAfterArgs ==
    {<< >>,
     <<K("b")>>,
     <<K("a"), K("b")>>,
     <<K("a"), L(<<K("b"), K("c")>>)>>}

\* owners_after of Transaction.transfer.
TransferOwnersArgs ==
    {<< >>,
     <<K("c")>>,
     <<L(<<K("a"), K("b")>>)>>,
     <<K("a"), K("c")>>,
     <<L(<<K("c")>>), L(<<K("a")>>)>>,
     <<L(<<K("c")>>), T(<<K("a"), K("b")>>, 1)>>}

\* The thresholds a client writes in a (list, threshold) tuple.
Thresholds == {1, 3}

\* The entries of an owner specification: keys, lists and tuples of up to
\* two keys, and lists that nest another list or tuple.
OwnerEntries ==
    LET keys == {K("a"), K("b")}
        lists == {<< >>} \cup {<<k>> : k \in keys}
                    \cup {<<k, l>> : k \in keys, l \in keys}
    IN  keys
        \cup {L(items) : items \in lists}
        \cup {T(items, n) : items \in lists, n \in Thresholds}
        \cup {L(<<K("a"), L(<<K("b"), K("c")>>)>>),
              L(<<K("a"), L(<<K("b")>>)>>),
              L(<<K("a"), T(<<K("b")>>, 1)>>),
              T(<<K("a"), L(<< >>)>>, 1)}

\* owners_after of Condition.generate: a key, or a list or tuple of up to
\* two entries.
OwnerSpecs ==
    LET lists == {<< >>} \cup {<<e>> : e \in OwnerEntries}
                    \cup {<<e, f>> : e \in OwnerEntries, f \in OwnerEntries}
    IN  {K("a")}
        \cup {L(items) : items \in lists}
        \cup {T(items, n) : items \in lists, n \in Thresholds}

\* The links a client makes: with both fields, with one, with none.
LinkArgs ==
    {TransactionLink(txid, cid) :
        txid \in {None, Some("tx-a"), Some("tx-b")},
        cid \in {None, Some(0), Some(1)}}

\* The arguments of Asset: a payload and flags of the right type and of
\* another.
AssetDataArgs == {None, Some(PyDict("data")), Some(PyStr("data"))}

AssetFlagArgs == {PyTrue, PyFalse, PyInt1}

\* The dictionaries a peer can send for an encoded Asset d: d, d without
\* the keys that have defaults, d without 'id', d with a payload or a
\* flag of another type.
AssetWireArgs(d) ==
    {d,
     [id |-> d.id],
     [id |-> d.id, data |-> d.data],
     [data |-> d.data],
     [d EXCEPT !.data = Some(PyStr("data"))],
     [d EXCEPT !.refillable = PyInt1]}

\* The values an Asset is compared with: a str, None, a Metadata with
\* and without payload, a TransactionLink, and Assets.
OtherArgs ==
    {[cls |-> "str", to_dict |-> None],
     [cls |-> "NoneType", to_dict |-> None],
     [cls |-> "Metadata",
      to_dict |-> Some(MetadataToDict(Some(Metadata(Some("payload"),
                                                    "asset-1"))))],
     [cls |-> "Metadata",
      to_dict |-> Some(MetadataToDict(Some(Metadata(None, "asset-1"))))],
     [cls |-> "TransactionLink",
      to_dict |-> Some(LinkToDict(TransactionLink(Some("tx-a"), Some(0))))]}
    \cup {[cls |-> "Asset", to_dict |-> Some(Some(AssetToDict(a)))] :
            a \in {Asset(None, "asset-1", PyFalse, PyFalse, PyFalse),
                   Asset(Some(PyDict("data")), "asset-1",
                         PyTrue, PyFalse, PyFalse)}}

\* The metadata and asset arguments a client passes together.
Profiles ==
    {[metadata |-> None, asset |-> None],
     [metadata |-> Some("payload"),
      asset |-> Some(Asset(Some(PyDict("data")), "asset-1",
                           PyTrue, PyFalse, PyFalse))]}

\* The pairs a client hands to the constructor: the owners_before of a
\* fulfillment, the owners its claim was generated for, and the owners of
\* the condition; no owners where the pair lacks the one or the other.
PairP ==
    [before |-> <<K("a")>>, claim |-> <<K("a")>>, after |-> <<K("b")>>]

PairQ ==
    [before |-> <<K("b")>>, claim |-> <<K("b")>>,
     after |-> <<K("a"), K("b")>>]

PairR ==
    [before |-> <<K("a"), K("b")>>, claim |-> <<K("a"), K("b")>>,
     after |-> <<K("c")>>]

\* A fulfillment one of whose owners is no party to its claim.
PairS ==
    [before |-> <<K("a"), K("c")>>, claim |-> <<K("a"), K("b")>>,
     after |-> <<K("c")>>]

\* A fulfillment that comes without a condition, and a condition that
\* comes without a fulfillment.
PairF == [before |-> <<K("a")>>, claim |-> <<K("a")>>, after |-> << >>]

PairC == [before |-> << >>, claim |-> << >>, after |-> <<K("b")>>]

ConstructorArgs ==
    {[operation |-> "CREATE", pairs |-> << >>],
     [operation |-> "GENESIS", pairs |-> << >>],
     [operation |-> "TRANSFER", pairs |-> << >>],
     [operation |-> "CREATE", pairs |-> <<PairP, PairF>>],
     [operation |-> "CREATE", pairs |-> <<PairP, PairC>>],
     [operation |-> "CREATE", pairs |-> <<PairP, PairQ>>],
     [operation |-> "CREATE", pairs |-> <<PairR, PairP>>],
     [operation |-> "CREATE", pairs |-> <<PairP, PairS>>],
     [operation |-> "GENESIS", pairs |-> <<PairQ, PairP>>]}

\* private_keys of Transaction.sign.
PrivateKeysArgs ==
    {{}, {"A"}, {"B"}, {"A", "B"}, {"B", "C"}, {"A", "B", "C"}}

\* Signatures a client can write over a stored one: of the same message
\* under other keys, of another message under any key.
OtherMessage == ToStr([id |-> None, version |-> VERSION])

ForgedSignatures(sig) ==
    {[by |-> sk, msg |-> sig.msg] : sk \in PrivKeys \ {sig.by}}
        \cup {[by |-> sig.by, msg |-> OtherMessage]}

\* ------------------------------------------------------------- the heap

\* The claims a transaction, or None, refers to: those of its
\* fulfillments, then those of its conditions.
TxRefs(o) ==
    IF o = None THEN << >>
    ELSE [i \in 1..Len(o[1].fulfillments) |-> o[1].fulfillments[i].ff]
         \o [i \in 1..Len(o[1].conditions) |-> o[1].conditions[i].ff]

\* The entries of a sequence in the order of their first occurrence.
RECURSIVE Distinct(_)
Distinct(refs) ==
    IF refs = << >> THEN << >>
    ELSE LET Keep(d, r) ==
                IF \E k \in 1..Len(d) : d[k] = r THEN d ELSE Append(d, r)
         IN  Keep(Distinct(SubSeq(refs, 1, Len(refs) - 1)), refs[Len(refs)])

\* Objects nothing refers to any more are collected: what is left of the
\* heap h when t, p and the Fulfillments hl are all the client holds, with
\* the objects named in the order in which p, t and hl refer to them.
Collect(h, t, p, hl) ==
    LET Renamed(order) ==
            LET New(r) == CHOOSE k \in 1..Len(order) : order[k] = r
                Tx(o) ==
                    IF o = None THEN None
                    ELSE Some([o[1] EXCEPT
                        !.fulfillments =
                            [i \in 1..Len(@) |->
                                [@[i] EXCEPT !.ff = New(@)]],
                        !.conditions =
                            [i \in 1..Len(@) |->
                                [@[i] EXCEPT !.ff = New(@)]]])
            IN  [heap |-> [k \in 1..Len(order) |-> h[order[k]]],
                 tx |-> Tx(t),
                 prev |-> Tx(p),
                 held |-> [i \in 1..Len(hl) |->
                              [hl[i] EXCEPT !.ff = New(@)]]]
    IN  Renamed(Distinct(TxRefs(p) \o TxRefs(t)
                         \o [i \in 1..Len(hl) |-> hl[i].ff]))

\* The client now holds t, p and hl over the heap h.
Holds(h, t, p, hl) ==
    \E g \in {Collect(h, t, p, hl)} :
        /\ Len(g.heap) <= MaxHeap
        /\ heap' = g.heap
        /\ tx' = g.tx
        /\ prev' = g.prev
        /\ held' = g.held

\* ------------------------------------------------------------ the actions

Init ==
    /\ heap = << >>
    /\ tx = None
    /\ prev = None
    /\ held = << >>
    /\ call = "init"
    /\ err = "ok"
    /\ errIdx = 0
    /\ ret = "none"
    /\ wire = None
    /\ got = None
    /\ args = None

\* tx = Transaction.create(...)
Create(owners_before, owners_after, metadata, asset, secret, time_expire) ==
    /\ tx = None
    /\ \E r \in {CreateResult(owners_before, owners_after, metadata, asset,
                              secret, time_expire, heap)} :
           /\ Holds(heap \o r.nodes, r.tx, prev, held)
           /\ err' = r.err
    /\ call' = "create"
    /\ errIdx' = 0
    /\ ret' = "none"
    /\ wire' = None
    /\ got' = None
    /\ args' = Some([owners_before |-> owners_before,
                     owners_after |-> owners_after, metadata |-> metadata,
                     asset |-> asset, secret |-> secret,
                     time_expire |-> time_expire])

\* got = Condition.generate(owners_after) as the first call of a client:
\* the Condition and the claim it refers to.
GenerateCondition(owners_after) ==
    /\ tx = None
    /\ call = "init"
    /\ \E r \in {Generate(owners_after)} :
           /\ got' = IF r.err = "ok"
                     THEN Some([condition |-> Condition(1, r.owners, 1),
                                heap |-> <<r.node[1]>>])
                     ELSE None
           /\ err' = r.err
    /\ call' = "generate"
    /\ errIdx' = 0
    /\ ret' = "none"
    /\ wire' = None
    /\ args' = Some([owners_after |-> owners_after])
    /\ UNCHANGED <<heap, tx, prev, held>>

\* got = TransactionLink(txid, cid), with bool(got).
NewLink(l) ==
    /\ tx = None
    /\ got' = Some([link |-> l, bool |-> LinkBool(l)])
    /\ call' = "TransactionLink"
    /\ err' = "ok"
    /\ errIdx' = 0
    /\ ret' = "none"
    /\ wire' = None
    /\ args' = None
    /\ UNCHANGED <<heap, tx, prev, held>>

\* wire = got.to_dict() of the link just made, then
\* TransactionLink.from_dict(wire).
LinkRoundTrip ==
    /\ tx = None
    /\ call = "TransactionLink"
    /\ wire' = Some(LinkToDict(got[1].link))
    /\ got' = Some([link |-> got[1].link, bool |-> got[1].bool,
                    decoded |-> LinkFromDict(LinkToDict(got[1].link))])
    /\ call' = "TransactionLink.from_dict"
    /\ err' = "ok"
    /\ errIdx' = 0
    /\ ret' = "none"
    /\ args' = None
    /\ UNCHANGED <<heap, tx, prev, held>>

\* ret = (got == other) for the link just made.
CompareLinks(other) ==
    /\ tx = None
    /\ call = "TransactionLink"
    /\ ret' = IF LinkEq(got[1].link, other) THEN "True" ELSE "False"
    /\ args' = Some([other |-> other])
    /\ call' = "TransactionLink.__eq__"
    /\ err' = "ok"
    /\ errIdx' = 0
    /\ wire' = None
    /\ UNCHANGED <<heap, tx, prev, held, got>>

\* got = Asset(data, data_id, divisible, updatable, refillable)
NewAsset(data, data_id, divisible, updatable, refillable) ==
    /\ tx = None
    /\ \E r \in {AssetInit(data, data_id, divisible, updatable,
                            refillable)} :
           /\ got' = IF r.err = "ok" THEN Some([asset |-> r.asset[1]])
                     ELSE None
           /\ err' = r.err
    /\ args' = Some([data |-> data, data_id |-> data_id,
                     divisible |-> divisible, updatable |-> updatable,
                     refillable |-> refillable])
    /\ call' = "Asset"
    /\ errIdx' = 0
    /\ ret' = "none"
    /\ wire' = None
    /\ UNCHANGED <<heap, tx, prev, held>>

\* wire = got.to_dict() of the Asset just made.
AssetToDictCall ==
    /\ tx = None
    /\ call = "Asset"
    /\ err = "ok"
    /\ wire' = Some(AssetToDict(got[1].asset))
    /\ call' = "Asset.to_dict"
    /\ errIdx' = 0
    /\ ret' = "none"
    /\ args' = None
    /\ UNCHANGED <<heap, tx, prev, held, got, err>>

\* Asset.from_dict(d) for a dictionary d made from the encoding of the
\* Asset just encoded; got keeps that Asset beside the decoded one.
AssetFromDictCall(d) ==
    /\ tx = None
    /\ call = "Asset.to_dict"
    /\ \E r \in {AssetFromDict(d)} :
           /\ got' = Some([asset |-> got[1].asset, decoded |-> r.asset])
           /\ err' = r.err
    /\ wire' = Some(d)
    /\ call' = "Asset.from_dict"
    /\ errIdx' = 0
    /\ ret' = "none"
    /\ args' = None
    /\ UNCHANGED <<heap, tx, prev, held>>

\* ret = (got == other) for the Asset just made.
CompareAssets(other) ==
    /\ tx = None
    /\ call = "Asset"
    /\ err = "ok"
    /\ ret' = IF AssetEq(got[1].asset, other) THEN "True" ELSE "False"
    /\ args' = Some([other |-> other])
    /\ call' = "Asset.__eq__"
    /\ errIdx' = 0
    /\ wire' = None
    /\ UNCHANGED <<heap, tx, prev, held, got, err>>

\* tx = Transaction(operation, asset, fulfillments, conditions) over
\* Fulfillments and Conditions the client made; it still holds the
\* Fulfillments.
Construct(operation, pairs) ==
    /\ tx = None
    /\ LET HasFulfillment(p) == p.before # << >>
           HasCondition(p) == p.after # << >>
           fpairs == SelectSeq(pairs, HasFulfillment)
           cpairs == SelectSeq(pairs, HasCondition)
           n == Len(fpairs)
           fs == [i \in 1..n |->
                     Fulfillment(RefAt(heap, i), fpairs[i].before, None)]
           fnodes == [i \in 1..n |-> Generate(L(fpairs[i].claim)).node[1]]
           cnodes == [i \in 1..Len(cpairs) |->
                         Generate(L(cpairs[i].after)).node[1]]
       IN  Holds(heap \o fnodes \o cnodes,
                 Some(Transaction(operation,
                      Asset(None, AssetUuid, PyFalse, PyFalse, PyFalse), fs,
                      [i \in 1..Len(cpairs) |->
                          Condition(RefAt(heap, n + i),
                                    Some(cpairs[i].after), 1)],
                      None, GenTimestamp, VERSION)),
                 prev, fs)
    /\ call' = "construct"
    /\ err' = "ok"
    /\ errIdx' = 0
    /\ ret' = "none"
    /\ wire' = None
    /\ got' = None
    /\ args' = None

\* tx.sign(private_keys)
Sign(private_keys) ==
    /\ tx # None
    /\ \E r \in {SignResult(tx[1], heap, private_keys)} :
           /\ Holds(r.heap, Some(r.tx), prev, held)
           /\ err' = r.err
           /\ errIdx' = r.idx
    /\ call' = "sign"
    /\ ret' = "none"
    /\ wire' = None
    /\ got' = None
    /\ args' = Some([private_keys |-> private_keys])

\* held = tx.to_inputs()
ToInputs ==
    /\ tx # None
    /\ prev = None
    /\ \E r \in {ToInputsResult(tx[1], heap, None)} :
           /\ Holds(heap, tx, prev, r.inputs)
           /\ err' = r.err
    /\ call' = "to_inputs"
    /\ errIdx' = 0
    /\ ret' = "none"
    /\ wire' = None
    /\ got' = None
    /\ args' = None

\* The lists of indices a client passes to to_inputs.
ConditionIndicesArgs ==
    {Some(<< >>), Some(<<0>>), Some(<<1>>), Some(<<1, 0>>), Some(<<0, 0>>),
     Some(<<0, 2>>)}

\* got = tx.to_inputs(condition_indices) on a transaction that was just
\* built or signed; the inputs share the claims of the conditions.
ToInputsOf(condition_indices) ==
    /\ tx # None
    /\ call \in {"create", "construct", "sign"}
    /\ err = "ok"
    /\ \E r \in {ToInputsResult(tx[1], heap, condition_indices)} :
           /\ got' = IF r.err = "ok" THEN Some([inputs |-> r.inputs])
                     ELSE None
           /\ err' = r.err
    /\ args' = Some([condition_indices |-> condition_indices])
    /\ call' = "to_inputs_of"
    /\ errIdx' = 0
    /\ ret' = "none"
    /\ wire' = None
    /\ UNCHANGED <<heap, tx, prev, held>>

\* tx = Transaction.transfer(held, owners_after, asset, metadata) with the
\* inputs that to_inputs returned; the spent transaction is kept as prev.
Transfer(owners_after, metadata) ==
    /\ tx # None
    /\ prev = None
    /\ call = "to_inputs"
    /\ \E r \in {TransferResult(held, owners_after, tx[1].asset, metadata,
                                heap)} :
           /\ IF r.err = "ok"
              THEN Holds(heap \o r.nodes, r.tx, tx, held)
              ELSE UNCHANGED <<heap, tx, prev, held>>
           /\ err' = r.err
    /\ call' = "transfer"
    /\ errIdx' = 0
    /\ ret' = "none"
    /\ wire' = None
    /\ got' = None
    /\ args' = Some([owners_after |-> owners_after, metadata |-> metadata])

\* The lists of prior Conditions a client can pass to fulfillments_valid:
\* none, those of the spent transaction, in their order and in reverse,
\* and all of them but the last; for a TRANSFER that was not made from a
\* transaction at hand, the empty list and the conditions of the
\* TRANSFER itself.
InputConditionsArgs ==
    {None}
    \cup (IF prev = None
          THEN IF tx # None /\ tx[1].operation = "TRANSFER"
               THEN {Some(<< >>), Some(tx[1].conditions)}
               ELSE {}
          ELSE LET cs == prev[1].conditions
               IN  {Some(cs),
                    Some([i \in 1..Len(cs) |-> cs[Len(cs) + 1 - i]]),
                    Some(SubSeq(cs, 1, Len(cs) - 1))})

\* ret = tx.fulfillments_valid(input_conditions)
CheckValid(input_conditions) ==
    /\ tx # None
    /\ \E r \in {FulfillmentsValid(tx[1], input_conditions, heap)} :
           /\ ret' = r
           /\ err' = IF r \in {"True", "False"} THEN "ok" ELSE r
    /\ call' = "fulfillments_valid"
    /\ errIdx' = 0
    /\ wire' = None
    /\ got' = None
    /\ args' = Some([input_conditions |-> input_conditions])
    /\ UNCHANGED <<heap, tx, prev, held>>

\* tx.fulfillments[i].fulfillment.signature = sig, on a transaction that
\* was just signed.
WriteSignature(i, sig) ==
    /\ tx # None
    /\ call = "sign"
    /\ err = "ok"
    /\ i \in 1..Len(tx[1].fulfillments)
    /\ heap[tx[1].fulfillments[i].ff].kind = "ed"
    /\ heap[tx[1].fulfillments[i].ff].sig # None
    /\ sig \in ForgedSignatures(heap[tx[1].fulfillments[i].ff].sig[1])
    /\ heap' = [heap EXCEPT ![tx[1].fulfillments[i].ff].sig = Some(sig)]
    /\ call' = "write_signature"
    /\ err' = "ok"
    /\ errIdx' = 0
    /\ ret' = "none"
    /\ wire' = None
    /\ got' = None
    /\ args' = None
    /\ UNCHANGED <<tx, prev, held>>

\* The dictionaries a peer can send for an encoded transaction d: d, d
\* without id, d with fields changed, and each with its id recomputed.
Changed(d) ==
    {d,
     [d EXCEPT !.id = None],
     [d EXCEPT !.transaction.timestamp = "0"],
     [d EXCEPT !.transaction.operation = "DELETE"],
     [d EXCEPT !.transaction.asset = [data |-> None]],
     [d EXCEPT !.transaction.conditions =
         [i \in 1..Len(@) |-> [@[i] EXCEPT !.amount = 2]]],
     [d EXCEPT !.transaction.fulfillments =
         [i \in 1..Len(@) |-> [@[i] EXCEPT !.fulfillment = FfGarbage]]],
     [d EXCEPT !.transaction.fulfillments =
         [i \in 1..Len(@) |-> [@[i] EXCEPT !.fulfillment = FfGarbage]],
               !.transaction.timestamp = "0"]}

\* Dictionaries of another shape than an encoded transaction has: d
\* without 'transaction', with and without 'id', and d with a fulfillment
\* that is no dictionary.
Misshapen(d) ==
    {[id |-> d.id, version |-> d.version],
     [id |-> None, version |-> d.version],
     [d EXCEPT !.transaction.fulfillments =
         [i \in 1..Len(@) |-> NotADict]]}

WireArgs(d) ==
    Changed(d)
        \cup {[c EXCEPT !.id = Some(ValidTxId(c))] : c \in Changed(d)}
        \cup Misshapen(d)

\* got = Transaction.from_dict(d) for a dictionary d made from the encoding
\* of the current transaction, once the transaction was built or changed:
\* the transaction decoded and the claims it refers to, which are new
\* objects.
FromDict(d) ==
    /\ tx # None
    /\ call \in {"create", "construct", "sign", "transfer", "write_signature"}
    /\ \E r \in {FromDictResult(d, << >>)} :
           /\ got' = IF r.err = "ok"
                     THEN Some([tx |-> r.tx[1], heap |-> r.nodes])
                     ELSE None
           /\ err' = r.err
    /\ wire' = Some(d)
    /\ call' = "from_dict"
    /\ errIdx' = 0
    /\ ret' = "none"
    /\ args' = None
    /\ UNCHANGED <<heap, tx, prev, held>>

Next ==
    \/ \E ob \in OwnersBeforeArgs, oa \in OwnersAfterArgs, p \in Profiles,
          secret \in {None, Some("secret")},
          te \in {None, Some("1476101480")} :
            Create(ob, oa, p.metadata, p.asset, secret, te)
    \/ \E oa \in OwnerSpecs : GenerateCondition(oa)
    \/ \E l \in LinkArgs : NewLink(l)
    \/ LinkRoundTrip
    \/ \E l \in LinkArgs : CompareLinks(l)
    \/ \E data \in AssetDataArgs, data_id \in {None, Some("asset-1")},
          d \in AssetFlagArgs, u \in AssetFlagArgs, r \in AssetFlagArgs :
            NewAsset(data, data_id, d, u, r)
    \/ AssetToDictCall
    \/ \E d \in AssetWireArgs(IF call = "Asset.to_dict" THEN wire[1]
                               ELSE AssetToDict(Asset(None, "asset-1",
                                        PyFalse, PyFalse, PyFalse))) :
            AssetFromDictCall(d)
    \/ \E o \in OtherArgs : CompareAssets(o)
    \/ \E c \in ConstructorArgs : Construct(c.operation, c.pairs)
    \/ \E ks \in PrivateKeysArgs : Sign(ks)
    \/ ToInputs
    \/ \E ci \in ConditionIndicesArgs : ToInputsOf(ci)
    \/ \E oa \in TransferOwnersArgs : Transfer(oa, None)
    \/ \E cs \in InputConditionsArgs : CheckValid(cs)
    \/ \E i \in 1..2 :
          \E n \in {IF tx # None /\ i <= Len(tx[1].fulfillments)
                    THEN heap[tx[1].fulfillments[i].ff] ELSE Ed("a")} :
            /\ n.sig # None
            /\ \E sig \in ForgedSignatures(n.sig[1]) : WriteSignature(i, sig)
    \/ \E e \in {IF tx = None THEN [err |-> "none"]
                  ELSE ToDict(tx[1], heap)} :
          /\ e.err = "ok"
          /\ \E d \in WireArgs(e.dict[1]) : FromDict(d)

Spec == Init /\ [][Next]_vars

\* ------------------------------------------- a client that edits what it
\* ------------------------------------------- signed

\* The assignments a client can make to the attributes of a transaction
\* t and of its fulfillments and conditions.
Edits(t) ==
    {[field |-> f, index |-> i, operation |-> t.operation] :
        f \in {"conditions.amount", "conditions",
               "fulfillments.owners_before", "fulfillments.tx_input"},
        i \in 1..Len(t.fulfillments)}
    \cup {[field |-> "operation", index |-> 0, operation |-> op] :
            op \in {"CREATE", "GENESIS", "TRANSFER"} \ {t.operation}}
    \cup {[field |-> f, index |-> 0, operation |-> t.operation] :
            f \in {"timestamp", "version", "metadata", "asset.data_id"}}

\* The transaction t after the assignment e, with the claims the
\* assignment allocates: another amount, another Condition
\* (Condition.generate of two owners), another owner, a link to another
\* transaction, another operation, timestamp, version, metadata payload
\* or asset id.
Assigned(t, h, e) ==
    LET g == Generate(L(<<K("c"), K("a")>>))
        same(u) == [tx |-> u, nodes |-> << >>]
    IN  CASE e.field = "conditions.amount" ->
                same([t EXCEPT !.conditions[e.index].amount = 2])
          [] e.field = "conditions" ->
                [tx |-> [t EXCEPT !.conditions[e.index] =
                            Condition(RefAt(h, 1), g.owners, 1)],
                 nodes |-> <<g.node[1]>>]
          [] e.field = "fulfillments.owners_before" ->
                same([t EXCEPT !.fulfillments[e.index].owners_before =
                        <<K("c")>>])
          [] e.field = "fulfillments.tx_input" ->
                same([t EXCEPT !.fulfillments[e.index].tx_input =
                        Some(TransactionLink(Some(ToHash(OtherMessage)),
                                             Some(0)))])
          [] e.field = "operation" ->
                same([t EXCEPT !.operation = e.operation])
          [] e.field = "timestamp" -> same([t EXCEPT !.timestamp = "0"])
          [] e.field = "version" -> same([t EXCEPT !.version = VERSION + 1])
          [] e.field = "metadata" ->
                same([t EXCEPT !.metadata =
                        Some(Metadata(Some("changed"),
                                      IF t.metadata = None THEN MetadataUuid
                                      ELSE t.metadata[1].data_id))])
          [] e.field = "asset.data_id" ->
                same([t EXCEPT !.asset.data_id = "asset-2"])

\* The client assigns to an attribute of a transaction it has just found
\* valid; args keeps the input_conditions it was found valid with.
Assign(e) ==
    /\ tx # None
    /\ call = "fulfillments_valid"
    /\ ret = "True"
    /\ Len(tx[1].fulfillments) > 0
    /\ \E r \in {Assigned(tx[1], heap, e)} :
           Holds(heap \o r.nodes, Some(r.tx), prev, held)
    /\ args' = Some([input_conditions |-> args[1].input_conditions,
                     edit |-> e])
    /\ call' = "assign"
    /\ err' = "ok"
    /\ errIdx' = 0
    /\ ret' = "none"
    /\ wire' = None
    /\ got' = None

\* The ways a client rearranges the pairs of a transaction: it adds a
\* pair, removes the pair at an index, or reverses the order of the pairs.
Rearrangements(t) ==
    {[kind |-> "append", index |-> 0]}
    \cup {[kind |-> "remove", index |-> i] : i \in 1..Len(t.fulfillments)}
    \cup (IF Len(t.fulfillments) > 1
          THEN {[kind |-> "reverse", index |-> 0]} ELSE {})

\* The transaction t after the rearrangement r, with the claims it
\* allocates: add_fulfillment and add_condition of a new pair owned by c,
\* or the two lists without the entry at an index, or reversed.
Rearranged(t, h, r) ==
    LET n == Len(t.fulfillments)
        Without(q) == [i \in 1..(Len(q) - 1) |->
                          IF i < r.index THEN q[i] ELSE q[i + 1]]
        Reversed(q) == [i \in 1..Len(q) |-> q[Len(q) + 1 - i]]
    IN  CASE r.kind = "append" ->
                [tx |-> [t EXCEPT
                    !.fulfillments =
                        Append(@, Fulfillment(RefAt(h, 1), <<K("c")>>, None)),
                    !.conditions =
                        Append(@, Condition(RefAt(h, 2), Some(<<K("c")>>),
                                            1))],
                 nodes |-> <<Ed("c"), Ed("c")>>]
          [] r.kind = "remove" ->
                [tx |-> [t EXCEPT !.fulfillments = Without(@),
                                  !.conditions = Without(@)],
                 nodes |-> << >>]
          [] r.kind = "reverse" ->
                [tx |-> [t EXCEPT !.fulfillments = Reversed(@),
                                  !.conditions = Reversed(@)],
                 nodes |-> << >>]

\* The client rearranges the pairs of a transaction it has just found
\* valid.
Rearrange(r) ==
    /\ tx # None
    /\ call = "fulfillments_valid"
    /\ ret = "True"
    /\ Len(tx[1].fulfillments) > 0
    /\ Len(tx[1].fulfillments) = Len(tx[1].conditions)
    /\ \E g \in {Rearranged(tx[1], heap, r)} :
           Holds(heap \o g.nodes, Some(g.tx), prev, held)
    /\ args' = Some([input_conditions |-> args[1].input_conditions,
                     kind |-> r.kind, index |-> r.index])
    /\ call' = "rearrange"
    /\ err' = "ok"
    /\ errIdx' = 0
    /\ ret' = "none"
    /\ wire' = None
    /\ got' = None

\* What this client builds: a CREATE for one owner or two, with and
\* without metadata and asset, transactions of two pairs, and the
\* TRANSFERs that spend them.
EditCreateOwnersArgs == {<<K("b")>>, <<K("a"), K("b")>>}

EditConstructorArgs ==
    {[operation |-> "CREATE", pairs |-> <<PairP, PairQ>>],
     [operation |-> "GENESIS", pairs |-> <<PairQ, PairP>>]}

EditTransferOwnersArgs == {<<K("c")>>, <<L(<<K("c")>>), L(<<K("a")>>)>>}

\* It signs what it has just built with all the keys, checks it, and
\* then edits it and checks it again.
NextEdit ==
    \/ \E oa \in EditCreateOwnersArgs, p \in Profiles :
          Create(<<K("a")>>, oa, p.metadata, p.asset, None, None)
    \/ \E c \in EditConstructorArgs : Construct(c.operation, c.pairs)
    \/ /\ call \in {"create", "construct", "transfer"}
       /\ err = "ok"
       /\ Sign(PrivKeys)
    \/ /\ call = "sign"
       /\ ToInputs
    \/ \E oa \in EditTransferOwnersArgs : Transfer(oa, None)
    \/ \E cs \in InputConditionsArgs : CheckValid(cs)
    \/ \E e \in (IF tx = None THEN {} ELSE Edits(tx[1])) : Assign(e)
    \/ \E r \in (IF tx = None THEN {} ELSE Rearrangements(tx[1])) :
          Rearrange(r)

SpecEdit == Init /\ [][NextEdit]_vars

\* ------------------------------------------------------------- the claims

\* The encoding of the current transaction.
Encoded == ToDict(tx[1], heap)

\* The claim of the i-th fulfillment of the current transaction.
ClaimAt(i) == heap[tx[1].fulfillments[i].ff]

\* The dictionary has the shape of an encoded transaction.
Shaped(d) ==
    /\ "transaction" \in DOMAIN d
    /\ \A i \in 1..Len(d.transaction.fulfillments) :
          d.transaction.fulfillments[i] # NotADict

\* The hash of what is left of a dictionary without 'id', with every
\* 'fulfillment' field null where it has the shape for that.
RecomputedId(d) ==
    ToHash(ToStr(IF Shaped(d) THEN RemoveSignatures([d EXCEPT !.id = None])
                 ELSE [d EXCEPT !.id = None]))

\* C1: from_dict of the to_dict of a transaction succeeds and returns a
\* transaction with the same to_dict, the id included.
C1_RoundTrip ==
    (tx # None /\ call = "from_dict" /\ wire = Encoded.dict)
        => /\ err = "ok"
           /\ got # None
           /\ ToDict(got[1].tx, got[1].heap) = Encoded

\* A signed TRANSFER whose input is a threshold claim was encoded and
\* decoded.
C1_Witness ==
    /\ tx # None
    /\ call = "from_dict"
    /\ wire = Encoded.dict
    /\ got # None
    /\ tx[1].operation = "TRANSFER"
    /\ Len(tx[1].fulfillments) > 0
    /\ ClaimAt(1).kind = "thr"
    /\ FullySigned(ClaimAt(1))
    /\ tx[1].metadata[1].data = None

\* C2 as stated: from_dict raises InvalidHash for every input whose id is
\* absent or is not the hash recomputed over the rest, whatever else is
\* wrong with the input.
C2_AnyInput ==
    (tx # None /\ call = "from_dict")
        => ((wire[1].id = None \/ wire[1].id # Some(RecomputedId(wire[1])))
                => err = "InvalidHash")

\* C2: from_dict raises InvalidHash for every input of the shape of an
\* encoded transaction whose id is absent or is not the hash recomputed
\* over the signature-stripped rest, and for every input without id; so
\* does the encoding of a transaction with its non-signature content
\* changed and its id kept, even when a field of it cannot be decoded.
C2_InvalidHashFirst ==
    (tx # None /\ call = "from_dict")
        => /\ wire[1].id = None => err = "InvalidHash"
           /\ (Shaped(wire[1]) /\ wire[1].id # Some(RecomputedId(wire[1])))
                => err = "InvalidHash"
           /\ (/\ Shaped(wire[1])
               /\ wire[1].id = Encoded.dict[1].id
               /\ RemoveSignatures(wire[1])
                    # RemoveSignatures(Encoded.dict[1]))
                => err = "InvalidHash"

\* A dictionary with a changed timestamp, a fulfillment that cannot be
\* parsed and the id of the unchanged transaction was refused.
C2_Witness ==
    /\ tx # None
    /\ call = "from_dict"
    /\ err = "InvalidHash"
    /\ Shaped(wire[1])
    /\ wire[1].id = Encoded.dict[1].id
    /\ wire[1].transaction.timestamp # tx[1].timestamp
    /\ Len(wire[1].transaction.fulfillments) > 0
    /\ wire[1].transaction.fulfillments[1].fulfillment = FfGarbage

\* The current transaction is a CREATE of one sender with one Leaf claim.
SingleSenderCreate ==
    /\ tx # None
    /\ tx[1].operation = "CREATE"
    /\ Len(tx[1].fulfillments) = 1
    /\ Len(tx[1].conditions) = 1
    /\ Len(tx[1].fulfillments[1].owners_before) = 1
    /\ ClaimAt(1).kind = "ed"

\* C3: fulfillments_valid is true for a single-sender CREATE right after
\* it was signed with the key of its owner, and false right after the
\* stored signature was replaced by a different one.
C3_SignatureIntegrity ==
    [][(SingleSenderCreate /\ call' = "fulfillments_valid")
        => /\ (call = "sign" /\ err = "ok") => ret' = "True"
           /\ call = "write_signature" => ret' = "False"]_vars

\* A single-sender CREATE whose signature was replaced by the owner's
\* signature of another message was found invalid.
C3_Witness ==
    /\ SingleSenderCreate
    /\ call = "fulfillments_valid"
    /\ ret = "False"
    /\ ClaimAt(1).sig # None
    /\ PubKeyOf[ClaimAt(1).sig[1].by] = tx[1].fulfillments[1].owners_before[1].key
    /\ ClaimAt(1).sig[1].msg = OtherMessage

\* The private keys of the leaf owners of a list of owner entries.
RECURSIVE LeafOwnerKeys(_)
LeafOwnerKeys(owners) ==
    UNION {IF owners[i].kind = "key" THEN {PrivKeyOf[owners[i].key]}
           ELSE LeafOwnerKeys(owners[i].items) : i \in 1..Len(owners)}

\* The private keys of the leaf owners of all the fulfillments of the
\* current transaction.
AllLeafOwnerKeys ==
    UNION {LeafOwnerKeys(tx[1].fulfillments[i].owners_before) :
              i \in 1..Len(tx[1].fulfillments)}

\* The conditions the current transaction spends, as fulfillments_valid
\* takes them.
PriorConditions ==
    IF tx[1].operation = "TRANSFER" THEN Some(prev[1].conditions) ELSE None

\* C4: once a CREATE made by create was signed and its conditions were
\* turned into the inputs of a TRANSFER, signing the TRANSFER with the
\* private keys of all leaf owners of the spent condition succeeds and
\* the TRANSFER is valid against the conditions of the CREATE.
C4_SpendLifecycle ==
    (/\ tx # None
     /\ prev # None
     /\ call = "transfer"
     /\ err = "ok"
     /\ prev[1].operation = "CREATE"
     /\ Len(prev[1].fulfillments) = 1
     /\ FullySigned(heap[prev[1].fulfillments[1].ff]))
        => \A r \in {SignResult(tx[1], heap, AllLeafOwnerKeys)} :
              /\ r.err = "ok"
              /\ FulfillmentsValid(r.tx, Some(prev[1].conditions), r.heap)
                    = "True"

\* The i-th fulfillment of the current transaction is a 2-of-2 threshold
\* over two keys, which are its owners.
TwoOfTwoAt(i) ==
    /\ ClaimAt(i).kind = "thr"
    /\ ClaimAt(i).thr = 2
    /\ Len(ClaimAt(i).subs) = 2
    /\ \A j \in 1..2 :
          /\ ClaimAt(i).subs[j].kind = "ed"
          /\ ClaimAt(i).subs[j].sig = None
    /\ tx[1].fulfillments[i].owners_before
          = <<K(ClaimAt(i).subs[1].pk), K(ClaimAt(i).subs[2].pk)>>

\* The current transaction was just built and nothing of it is signed.
Fresh == call = "construct" \/ (call = "transfer" /\ err = "ok")

\* C5: a freshly built transaction with a 2-of-2 threshold fulfillment is
\* invalid against its real prior conditions after sign with exactly one
\* of the two keys of the threshold, and valid after sign with the keys
\* of all its owners.
C5_ThresholdCompleteness ==
    (tx # None /\ Fresh)
        => \A i \in 1..Len(tx[1].fulfillments) :
              TwoOfTwoAt(i)
                => \A ks \in SUBSET PrivKeys :
                      \A r \in {SignResult(tx[1], heap, ks)} :
                        /\ Cardinality(ks \cap LeafOwnerKeys(
                                tx[1].fulfillments[i].owners_before)) = 1
                             => FulfillmentsValid(r.tx, PriorConditions,
                                                  r.heap) = "False"
                        /\ AllLeafOwnerKeys \subseteq ks
                             => /\ r.err = "ok"
                                /\ FulfillmentsValid(r.tx, PriorConditions,
                                                     r.heap) = "True"

\* A TRANSFER that spends a 2-of-2 threshold is invalid after a sign that
\* one of the two keys was missing for.
C5_Witness ==
    /\ tx # None
    /\ call = "sign"
    /\ err = "KeypairMismatch"
    /\ errIdx = 1
    /\ tx[1].operation = "TRANSFER"
    /\ TwoOfTwoAt(1)
    /\ FulfillmentsValid(tx[1], PriorConditions, heap) = "False"
    /\ \E r \in {SignResult(tx[1], heap, AllLeafOwnerKeys)} :
          FulfillmentsValid(r.tx, PriorConditions, r.heap) = "True"

\* C6: for a TRANSFER, fulfillments_valid(input_conditions) is true only
\* if the fingerprint of every fulfillment is the fingerprint of the
\* input condition at its index, and false when one of them differs.
C6_FingerprintMatch ==
    (tx # None /\ prev # None /\ tx[1].operation = "TRANSFER")
        => \A cs \in {c \in InputConditionsArgs \ {None} :
                        Len(c[1]) = Len(tx[1].fulfillments)} :
              /\ FulfillmentsValid(tx[1], cs, heap) = "True"
                    => \A i \in 1..Len(tx[1].fulfillments) :
                          ConditionUri(ClaimAt(i))
                            = ConditionUri(heap[cs[1][i].ff])
              /\ (\E i \in 1..Len(tx[1].fulfillments) :
                      ConditionUri(ClaimAt(i))
                        # ConditionUri(heap[cs[1][i].ff]))
                    => FulfillmentsValid(tx[1], cs, heap) = "False"

\* A TRANSFER of two inputs that is valid against the conditions it spends
\* was found invalid, against the same conditions in another order.
C6_Witness ==
    /\ tx # None
    /\ prev # None
    /\ tx[1].operation = "TRANSFER"
    /\ Len(tx[1].fulfillments) = 2
    /\ call = "fulfillments_valid"
    /\ ret = "False"
    /\ FulfillmentsValid(tx[1], Some(prev[1].conditions), heap) = "True"

\* C7: sign leaves the id of the transaction as it was, whether it
\* succeeds, aborts or signs again.
C7_IdUnaffectedBySigning ==
    [][(tx # None /\ call' = "sign")
        => TxId(tx'[1], heap') = TxId(tx[1], heap)]_vars

\* A sign signed the first fulfillment and aborted at the second, a Leaf.
C7_Witness ==
    /\ tx # None
    /\ call = "sign"
    /\ err = "KeypairMismatch"
    /\ errIdx = 2
    /\ ClaimAt(2).kind = "ed"
    /\ FullySigned(ClaimAt(1))
    /\ ~FullySigned(ClaimAt(2))

\* What a client sees through Fulfillments it holds: each with its claim.
HeldView(hl, h) ==
    [i \in 1..Len(hl) |->
        [claim |-> h[hl[i].ff], owners_before |-> hl[i].owners_before,
         tx_input |-> hl[i].tx_input]]

\* What is seen through the Conditions of a transaction, or of None.
ConditionsView(o, h) ==
    IF o = None THEN << >>
    ELSE [i \in 1..Len(o[1].conditions) |->
            [claim |-> h[o[1].conditions[i].ff],
             owners_after |-> o[1].conditions[i].owners_after]]

\* The objects the client has other names for than the fulfillments of
\* the current transaction.
AliasedRefs ==
    {held[i].ff : i \in 1..Len(held)}
        \cup {TxRefs(prev)[i] : i \in 1..Len(TxRefs(prev))}
        \cup {tx[1].conditions[i].ff : i \in 1..Len(tx[1].conditions)}

\* The number of fulfillments the last sign installed a signed copy for.
Installed ==
    IF err = "ok"
    THEN IF Len(tx[1].fulfillments) <= Len(tx[1].conditions)
         THEN Len(tx[1].fulfillments) ELSE Len(tx[1].conditions)
    ELSE errIdx - 1

\* C8: sign changes nothing that is seen through the Fulfillments the
\* caller holds, the Conditions of the spent transaction or the Conditions
\* of the transaction itself, and every signed claim it installs is an
\* object none of them refers to.
C8_CopyBeforeMutate ==
    [][(tx # None /\ call' = "sign")
        => /\ HeldView(held', heap') = HeldView(held, heap)
           /\ ConditionsView(prev', heap') = ConditionsView(prev, heap)
           /\ ConditionsView(tx', heap') = ConditionsView(tx, heap)
           /\ \A i \in 1..Installed' :
                 tx'[1].fulfillments[i].ff \notin AliasedRefs']_vars

\* A transaction made of a Threshold and a Leaf fulfillment that the
\* client still holds was signed: its claims are signed, theirs are not.
C8_Witness ==
    /\ tx # None
    /\ call = "sign"
    /\ err = "ok"
    /\ Len(held) = 2
    /\ Len(tx[1].fulfillments) = 2
    /\ held[1].tx_input = None
    /\ heap[held[1].ff].kind = "thr"
    /\ heap[held[2].ff].kind = "ed"
    /\ \A i \in 1..2 :
          /\ held[i].owners_before = tx[1].fulfillments[i].owners_before
          /\ FullySigned(ClaimAt(i))
          /\ heap[held[i].ff] = Generate(L(held[i].owners_before)).node[1]

\* The public keys of the leaves of a claim.
RECURSIVE LeafPublicKeys(_)
LeafPublicKeys(n) ==
    IF n.kind = "ed" THEN {n.pk}
    ELSE UNION {LeafPublicKeys(n.subs[i]) : i \in 1..Len(n.subs)}

\* Some fulfillment that is paired with a condition has an owner key that
\* private_keys has no private key for (the one owner of a Leaf, any
\* owner of a Threshold), or a Threshold owner key that is the key of
\* none of the leaves of its claim.
Mismatched(private_keys) ==
    \E i \in 1..Len(tx[1].fulfillments) :
        /\ i <= Len(tx[1].conditions)
        /\ \/ /\ ClaimAt(i).kind = "ed"
              /\ Len(tx[1].fulfillments[i].owners_before) = 1
              /\ tx[1].fulfillments[i].owners_before[1].kind = "key"
              /\ PrivKeyOf[tx[1].fulfillments[i].owners_before[1].key]
                    \notin private_keys
           \/ /\ ClaimAt(i).kind = "thr"
              /\ \E j \in 1..Len(tx[1].fulfillments[i].owners_before) :
                    /\ tx[1].fulfillments[i].owners_before[j].kind = "key"
                    /\ \/ PrivKeyOf[tx[1].fulfillments[i]
                                        .owners_before[j].key]
                             \notin private_keys
                       \/ tx[1].fulfillments[i].owners_before[j].key
                             \notin LeafPublicKeys(ClaimAt(i))

\* C9: sign(private_keys) raises KeypairMismatchException, and no other
\* error, whenever an owner key of a fulfillment has no private key in
\* private_keys or a Threshold owner key is not in the claim.
C9_KeypairMismatch ==
    tx # None
        => \A ks \in SUBSET PrivKeys :
              Mismatched(ks)
                => SignResult(tx[1], heap, ks).err = "KeypairMismatch"

\* A sign aborted with KeypairMismatch at a Threshold fulfillment one of
\* whose owners is not in its claim.
C9_Witness ==
    /\ tx # None
    /\ call = "sign"
    /\ err = "KeypairMismatch"
    /\ errIdx = 2
    /\ ClaimAt(2).kind = "thr"
    /\ \E j \in 1..Len(tx[1].fulfillments[2].owners_before) :
          tx[1].fulfillments[2].owners_before[j].key
            \notin LeafPublicKeys(ClaimAt(2))

\* A claim without its signatures.
RECURSIVE Unsigned(_)
Unsigned(n) ==
    [n EXCEPT !.sig = None,
              !.subs = [i \in 1..Len(n.subs) |-> Unsigned(n.subs[i])]]

\* What is seen through the i-th fulfillment of a transaction.
FulfillmentView(t, h, i) ==
    [claim |-> h[t.fulfillments[i].ff],
     owners_before |-> t.fulfillments[i].owners_before,
     tx_input |-> t.fulfillments[i].tx_input]

\* C10: when sign aborts with KeypairMismatch at index k, every
\* fulfillment below k is a signed copy of what it was, and every
\* fulfillment at k or above is what it was.
C10_PartialFailure ==
    [][(tx # None /\ call' = "sign" /\ err' = "KeypairMismatch")
        => /\ errIdx' \in 1..Len(tx[1].fulfillments)
           /\ \A i \in 1..(errIdx' - 1) :
                 /\ FullySigned(heap'[tx'[1].fulfillments[i].ff])
                 /\ Unsigned(FulfillmentView(tx'[1], heap', i).claim)
                       = Unsigned(FulfillmentView(tx[1], heap, i).claim)
                 /\ tx'[1].fulfillments[i].owners_before
                       = tx[1].fulfillments[i].owners_before
           /\ \A i \in errIdx'..Len(tx[1].fulfillments) :
                 FulfillmentView(tx'[1], heap', i)
                    = FulfillmentView(tx[1], heap, i)]_vars

\* A sign of a TRANSFER signed a Leaf fulfillment and aborted at the next
\* one, a Threshold that is as unsigned as before.
C10_Witness ==
    /\ tx # None
    /\ call = "sign"
    /\ err = "KeypairMismatch"
    /\ errIdx = 2
    /\ tx[1].operation = "TRANSFER"
    /\ ClaimAt(1).kind = "ed"
    /\ FullySigned(ClaimAt(1))
    /\ ClaimAt(2).kind = "thr"
    /\ Unsigned(ClaimAt(2)) = ClaimAt(2)

\* The fulfillments and conditions of the current transaction, and the
\* input_conditions of the last fulfillments_valid when it was given any,
\* are equal in number.
CountsAgree ==
    /\ Len(tx[1].fulfillments) = Len(tx[1].conditions)
    /\ (tx[1].operation = "TRANSFER" /\ args[1].input_conditions # None)
          => Len(args[1].input_conditions[1]) = Len(tx[1].fulfillments)

\* C11: fulfillments_valid returns a boolean, and raises nothing, for
\* every transaction and every input_conditions whose counts agree: with
\* unsigned or forged claims, and for a TRANSFER without input_conditions.
C11_NeverRaises ==
    (tx # None /\ call = "fulfillments_valid" /\ CountsAgree)
        => ret \in {"True", "False"}

\* C12: the batch check raises ValueError whenever the fulfillments, the
\* conditions and the reference URIs are not equal in number, whatever
\* the pairs are worth; and fulfillments_valid of a transaction with
\* unequal fulfillment and condition counts never returns a boolean.
C12_CountMismatch ==
    tx # None
        => /\ \A n \in 0..3 :
                 ~(/\ Len(tx[1].fulfillments) = Len(tx[1].conditions)
                   /\ Len(tx[1].conditions) = n)
                    => FulfillmentsValidUris(tx[1],
                            [i \in 1..n |-> DummyValue], heap) = "ValueError"
           /\ call = "fulfillments_valid"
                 => /\ Len(tx[1].fulfillments) # Len(tx[1].conditions)
                         => ret \notin {"True", "False"}
                    /\ (/\ ~CountsAgree
                        /\ ~(/\ tx[1].operation = "TRANSFER"
                             /\ args[1].input_conditions = None))
                         => ret = "ValueError"

\* A transaction of two fulfillments and one condition was constructed
\* and signed, and its check raised ValueError.
C12_Witness ==
    /\ tx # None
    /\ call = "fulfillments_valid"
    /\ ret = "ValueError"
    /\ Len(tx[1].fulfillments) = 2
    /\ Len(tx[1].conditions) = 1
    /\ FullySigned(ClaimAt(1))

\* The error kinds of an invalid argument.
InvalidArgument == {"ValueError", "TypeError"}

\* C13: transfer raises ValueError or TypeError and returns no
\* transaction whenever it is given no inputs or inputs and owners_after
\* of different counts; create raises ValueError or TypeError and returns
\* no transaction whenever owners_before is empty, whatever owners_after,
\* secret and time_expire are.
C13_BuilderArguments ==
    /\ (/\ call = "transfer"
        /\ (Len(held) = 0 \/ Len(held) # Len(args[1].owners_after)))
          => (err \in InvalidArgument /\ prev = None)
    /\ (call = "create" /\ args[1].owners_before = << >>)
          => (err \in InvalidArgument /\ tx = None)
    /\ \A oa \in OwnersAfterArgs, secret \in {None, Some("secret")},
          te \in {None, Some("1476101480")} :
            \A r \in {CreateResult(<< >>, oa, None, None, secret, te, heap)} :
                r.err \in InvalidArgument /\ r.tx = None

\* A transfer of two inputs to one owner raised ValueError and built
\* nothing.
C13_Witness ==
    /\ call = "transfer"
    /\ Len(held) = 2
    /\ Len(args[1].owners_after) = 1
    /\ err = "ValueError"
    /\ prev = None

C15_NotSupported ==
    (/\ call = "create"
     /\ \/ Len(args[1].owners_before) > 1
        \/ (Len(args[1].owners_before) = 1 /\ args[1].time_expire # None))
        => (err = "NotImplementedError" /\ tx = None)

\* Condition.generate applied to one owner group of owners_after; a group
\* that is a bare key is read as the list of that key.
GroupCondition(group) ==
    IF group.kind = "key" THEN Generate(L(<<group>>)) ELSE Generate(group)

\* C16: transfer with as many inputs as owner groups, and at least one,
\* succeeds and returns a TRANSFER transaction whose i-th condition is
\* Condition.generate of the i-th owner group, by the same rule for one
\* input as for several, and whose fulfillments are equal in value to
\* the inputs, in their order.
C16_TransferShape ==
    (/\ call = "transfer"
     /\ Len(held) >= 1
     /\ Len(held) = Len(args[1].owners_after))
        => /\ err = "ok"
           /\ prev # None
           /\ tx[1].operation = "TRANSFER"
           /\ Len(tx[1].conditions) = Len(held)
           /\ Len(tx[1].fulfillments) = Len(held)
           /\ \A i \in 1..Len(held) :
                 /\ GroupCondition(args[1].owners_after[i]).err = "ok"
                 /\ heap[tx[1].conditions[i].ff]
                      = GroupCondition(args[1].owners_after[i]).node[1]
                 /\ FulfillmentView(tx[1], heap, i) = HeldView(held, heap)[i]

\* The tree an entry of an owner specification stands for: a Leaf for a
\* key, a Threshold over the trees of its entries for a list or a tuple,
\* with the threshold of the tuple or else the number of entries.
RECURSIVE SubTree(_)
SubTree(entry) ==
    IF entry.kind = "key" THEN Ed(entry.key)
    ELSE Thr(IF entry.kind = "tuple" THEN entry.thr ELSE Len(entry.items),
             [i \in 1..Len(entry.items) |-> SubTree(entry.items[i])])

\* The tree of an owner specification: a Leaf for a single entry that is
\* a key, the root Threshold otherwise.
SpecTree(spec) ==
    IF Len(spec.items) = 1 /\ spec.items[1].kind = "key"
    THEN Ed(spec.items[1].key)
    ELSE SubTree(spec)

\* A list or tuple entry with fewer than two entries, at any depth.
RECURSIVE ShortSublist(_)
ShortSublist(entry) ==
    /\ entry.kind # "key"
    /\ \/ Len(entry.items) < 2
       \/ \E i \in 1..Len(entry.items) : ShortSublist(entry.items[i])

\* The owner specification is no list, is empty, or nests a sublist of
\* fewer than two entries.
InvalidSpec(spec) ==
    \/ spec.kind = "key"
    \/ Len(spec.items) = 0
    \/ \E i \in 1..Len(spec.items) : ShortSublist(spec.items[i])

\* C17: Condition.generate returns the tree of the owner specification,
\* for every specification that is a non-empty list or tuple without a
\* sublist of fewer than two entries: a Leaf for a single key, otherwise
\* the root Threshold over the Leaves and subtrees of its entries, in
\* their order.
C17_GenerateTree ==
    (call = "generate" /\ ~InvalidSpec(args[1].owners_after))
        => /\ err = "ok"
           /\ got # None
           /\ got[1].heap[1] = SpecTree(args[1].owners_after)

\* Every Threshold node of a tree has a threshold between one and the
\* number of its subconditions.
RECURSIVE ThresholdsInRange(_)
ThresholdsInRange(n) ==
    n.kind = "thr"
        => /\ 1 <= n.thr
           /\ n.thr <= Len(n.subs)
           /\ \A i \in 1..Len(n.subs) : ThresholdsInRange(n.subs[i])

\* C18: every Threshold node of a tree that Condition.generate returns,
\* the root and the nested ones, with the default or with a threshold the
\* caller wrote, has a threshold between one and the number of its
\* subconditions.
C18_ThresholdRange ==
    (call = "generate" /\ err = "ok")
        => ThresholdsInRange(got[1].heap[1])

\* C19: Condition.generate raises ValueError or TypeError and returns no
\* Condition when the owner specification is no list, is empty, or nests
\* a sublist of fewer than two entries at any depth, bare or in a tuple.
C19_GenerateRejects ==
    (call = "generate" /\ InvalidSpec(args[1].owners_after))
        => (err \in InvalidArgument /\ got = None)

\* C20: the 'asset' field of to_dict() is exactly {'id': asset id} for a
\* TRANSFER transaction, whatever payload and flags its Asset object
\* holds, and is the full encoding of the Asset (id, data and the three
\* flags) for a CREATE and a GENESIS transaction.
C20_AssetField ==
    (tx # None /\ Encoded.err = "ok")
        => Encoded.dict[1].transaction.asset
             = IF tx[1].operation = "TRANSFER"
               THEN [id |-> tx[1].asset.data_id]
               ELSE [id |-> tx[1].asset.data_id,
                     data |-> tx[1].asset.data,
                     divisible |-> tx[1].asset.divisible,
                     updatable |-> tx[1].asset.updatable,
                     refillable |-> tx[1].asset.refillable]

\* A TRANSFER transaction whose Asset object holds a payload and a set
\* flag is encoded.
C20_Witness ==
    /\ tx # None
    /\ call = "transfer"
    /\ tx[1].operation = "TRANSFER"
    /\ tx[1].asset.data # None
    /\ tx[1].asset.divisible = PyTrue
    /\ Encoded.err = "ok"
    /\ DOMAIN Encoded.dict[1].transaction.asset = {"id"}

\* C22: every TransactionLink has both fields null or both non-null; it is
\* truthy exactly when both are non-null, its encoding is null exactly
\* when it is not truthy, and decoding its encoding gives a link with the
\* same fields and the same truth value.
C22_BothOrNeither ==
    (call \in {"TransactionLink", "TransactionLink.from_dict"})
        => /\ (got[1].link.txid = None) <=> (got[1].link.cid = None)
           /\ got[1].bool
                <=> (got[1].link.txid # None /\ got[1].link.cid # None)
           /\ call = "TransactionLink.from_dict"
                => /\ (wire[1] = None) <=> ~got[1].bool
                   /\ got[1].decoded = got[1].link
                   /\ LinkBool(got[1].decoded) <=> got[1].bool

\* The payload of an Asset is None or a dict and its flags are bools.
WellFormedAsset(a) ==
    /\ a.data = None \/ a.data[1].type = "dict"
    /\ a.divisible.type = "bool"
    /\ a.updatable.type = "bool"
    /\ a.refillable.type = "bool"

\* C23: every Asset the constructor or Asset.from_dict returns has a
\* payload that is None or a dict and flags that are bools; the
\* constructor raises TypeError and returns nothing for another payload
\* or flag, and without arguments it returns an Asset without payload,
\* with a non-empty generated id and with the three flags False.
C23_AssetInvariant ==
    /\ call = "Asset"
         => /\ err = "ok" => WellFormedAsset(got[1].asset)
            /\ ~WellFormedAsset(args[1])
                 => (err = "TypeError" /\ got = None)
            /\ args[1] = [data |-> None, data_id |-> None,
                          divisible |-> PyFalse, updatable |-> PyFalse,
                          refillable |-> PyFalse]
                 => /\ err = "ok"
                    /\ got[1].asset.data = None
                    /\ got[1].asset.data_id # ""
                    /\ got[1].asset.divisible = PyFalse
                    /\ got[1].asset.updatable = PyFalse
                    /\ got[1].asset.refillable = PyFalse
    /\ (call = "Asset.from_dict" /\ err = "ok")
         => WellFormedAsset(got[1].decoded[1])

\* The constructor was called with the integer 1 as a flag and raised
\* TypeError.
C23_Witness ==
    /\ call = "Asset"
    /\ args[1].divisible = PyInt1
    /\ args[1].data = Some(PyDict("data"))
    /\ err = "TypeError"
    /\ got = None

\* The five keys of an encoded Asset with the field values of a.
FiveKeys(a) ==
    [id |-> a.data_id, divisible |-> a.divisible, updatable |-> a.updatable,
     refillable |-> a.refillable, data |-> a.data]

\* C24: to_dict of an Asset is the dictionary of id, divisible, updatable,
\* refillable and data with its field values; from_dict of that
\* dictionary succeeds and returns an Asset equal to it; and an Asset
\* compared with a value that is no Asset is not equal to it, without an
\* error.
C24_AssetRoundTrip ==
    /\ call = "Asset.to_dict" => wire[1] = FiveKeys(got[1].asset)
    /\ (call = "Asset.from_dict" /\ wire[1] = FiveKeys(got[1].asset))
         => /\ err = "ok"
            /\ got[1].decoded # None
            /\ got[1].decoded[1] = got[1].asset
            /\ AssetEq(got[1].decoded[1],
                       [cls |-> "Asset",
                        to_dict |-> Some(Some(FiveKeys(got[1].asset)))])
    /\ (call = "Asset.__eq__" /\ args[1].other.cls # "Asset")
         => (ret = "False" /\ err = "ok")

\* An Asset with a payload and a set flag was encoded and decoded.
C24_Witness ==
    /\ call = "Asset.from_dict"
    /\ wire[1] = FiveKeys(got[1].asset)
    /\ got[1].asset.data # None
    /\ got[1].asset.refillable = PyTrue
    /\ err = "ok"
    /\ got[1].decoded = Some(got[1].asset)

\* C30: two TransactionLinks compare equal exactly when they have the
\* same txid and the same cid.
C30_LinkEquality ==
    call = "TransactionLink.__eq__"
        => (ret = "True" <=> got[1].link = args[1].other)

\* The Fulfillment to_inputs is to return for the condition at index cid
\* (from 0) of the current transaction.
InputFor(cid) ==
    [ff |-> tx[1].conditions[cid + 1].ff,
     owners_before |-> tx[1].conditions[cid + 1].owners_after[1],
     tx_input |-> Some([txid |-> Encoded.dict[1].id, cid |-> Some(cid)])]

\* C21: to_inputs succeeds for every condition a transaction carries, a
\* hash-lock without owners_after too: with None or an empty list it
\* returns one Fulfillment per condition in their order, with a list of
\* indices of conditions one per listed index in the listed order, each
\* with the claim of its condition, the condition's owners_after as
\* owners_before, and the link (transaction id, index).
C21_ToInputs ==
    /\ (call = "to_inputs_of"
         /\ \A k \in 1..Len(args[1].condition_indices[1]) :
               args[1].condition_indices[1][k] < Len(tx[1].conditions))
         => /\ err = "ok"
            /\ got # None
            /\ got[1].inputs
                 = IF Len(args[1].condition_indices[1]) = 0
                   THEN [i \in 1..Len(tx[1].conditions) |-> InputFor(i - 1)]
                   ELSE [k \in 1..Len(args[1].condition_indices[1]) |->
                            InputFor(args[1].condition_indices[1][k])]
    /\ call = "to_inputs"
         => /\ err = "ok"
            /\ held = [i \in 1..Len(tx[1].conditions) |-> InputFor(i - 1)]

\* Some leaf of a claim with the public key pk carries a signature.
RECURSIVE LeafSigned(_, _)
LeafSigned(n, pk) ==
    CASE n.kind = "ed" -> n.pk = pk /\ n.sig # None
      [] n.kind = "thr" -> \E i \in 1..Len(n.subs) : LeafSigned(n.subs[i], pk)
      [] OTHER -> FALSE

\* C26: after sign aborted at a Threshold fulfillment, the fulfillment of
\* the transaction at that index holds the signatures of the owners that
\* were signed for before the abort: those that precede the first owner
\* whose key is missing from private_keys or from the claim.
C26_PartialSigning ==
    (/\ tx # None
     /\ call = "sign"
     /\ err = "KeypairMismatch"
     /\ ClaimAt(errIdx).kind = "thr")
        => \A j \in 1..Len(tx[1].fulfillments[errIdx].owners_before) :
              (\A k \in 1..j :
                  /\ HasLeaf(ClaimAt(errIdx),
                             tx[1].fulfillments[errIdx].owners_before[k])
                  /\ HasKey(tx[1].fulfillments[errIdx].owners_before[k],
                            args[1].private_keys))
                => LeafSigned(ClaimAt(errIdx),
                      tx[1].fulfillments[errIdx].owners_before[j].key)

\* C27: after sign returned without raising, every fulfillment of the
\* transaction is signed, one that has no condition at its index too: a
\* Leaf carries a signature, and a Threshold carries one for every owner
\* in owners_before.
C27_AllSigned ==
    (tx # None /\ call = "sign" /\ err = "ok")
        => \A i \in 1..Len(tx[1].fulfillments) :
              /\ ClaimAt(i).kind = "ed" => ClaimAt(i).sig # None
              /\ ClaimAt(i).kind = "thr"
                   => \A j \in 1..Len(tx[1].fulfillments[i].owners_before) :
                         LeafSigned(ClaimAt(i),
                            tx[1].fulfillments[i].owners_before[j].key)

\* The fingerprints the last fulfillments_valid checked the fulfillments
\* against.
CheckedUris ==
    IF tx[1].operation \in {"CREATE", "GENESIS"}
    THEN [i \in 1..Len(tx[1].fulfillments) |-> DummyValue]
    ELSE [i \in 1..Len(args[1].input_conditions[1]) |->
            Some(ConditionUri(heap[args[1].input_conditions[1][i].ff]))]

\* C29: when fulfillments_valid returns a boolean it is true exactly when
\* the check of every pair is true; so it is true for a CREATE or GENESIS
\* transaction without fulfillments and conditions, and for a TRANSFER
\* without fulfillments and conditions that is checked against an empty
\* list of prior conditions.
C29_EmptyConjunction ==
    (tx # None /\ call = "fulfillments_valid")
        => /\ ret \in {"True", "False"}
                => (ret = "True"
                      <=> \A i \in 1..Len(tx[1].fulfillments) :
                             GenTx(tx[1], i, CheckedUris, heap) = "True")
           /\ (/\ Len(tx[1].fulfillments) = 0
               /\ Len(tx[1].conditions) = 0
               /\ tx[1].operation = "TRANSFER"
                     => args[1].input_conditions = Some(<< >>))
                => ret = "True"

\* A TRANSFER without fulfillments and conditions was checked against an
\* empty list of prior conditions and found valid.
C29_Witness ==
    /\ tx # None
    /\ call = "fulfillments_valid"
    /\ tx[1].operation = "TRANSFER"
    /\ Len(tx[1].fulfillments) = 0
    /\ Len(tx[1].conditions) = 0
    /\ args[1].input_conditions = Some(<< >>)
    /\ ret = "True"

\* C25: once a transaction has been signed and found valid, changing an
\* amount, the owners or the claim of a condition, the owners_before or the
\* input link of a fulfillment, the operation, the timestamp, the version,
\* the metadata payload or the encoded asset makes fulfillments_valid,
\* called with the same input_conditions, return false.
C25_SignatureBindsContent ==
    [][(/\ call = "assign"
        /\ call' = "fulfillments_valid"
        /\ args'[1].input_conditions = args[1].input_conditions)
       => ret' = "False"]_vars

\* The fingerprint of the prior condition that the fulfillment f names,
\* None where it names none of the spent transaction p.
PriorUri(f, p, h) ==
    IF p = None \/ f.tx_input = None THEN None
    ELSE IF f.tx_input[1].cid = None THEN None
    ELSE IF f.tx_input[1].cid[1] + 1 \notin 1..Len(p[1].conditions) THEN None
    ELSE Some(ConditionUri(h[p[1].conditions[f.tx_input[1].cid[1] + 1].ff]))

\* The validity of the pair at index i of t, each fulfillment checked
\* against the prior condition it names.
PairValidity(t, p, h, i) ==
    GenTx(t, i,
          [k \in 1..Len(t.fulfillments) |->
              IF t.operation \in {"CREATE", "GENESIS"} THEN DummyValue
              ELSE PriorUri(t.fulfillments[k], p, h)],
          h)

\* The index of the pair i after the rearrangement r of n pairs.
NewIndex(r, i, n) ==
    CASE r.kind = "append" -> i
      [] r.kind = "remove" -> IF i < r.index THEN i ELSE i - 1
      [] r.kind = "reverse" -> n + 1 - i

====
